---- MODULE Spec2Model ----
(***************************************************************************)
(* Verification model of the road-safety data visualisation charts        *)
(* (d3.js chart classes of TamTonyTong/COS30045_Data_Visualisation).       *)
(*                                                                         *)
(* One page instantiates one chart class (variable chart); the page's own  *)
(* script is not part of the sources, so the order in which it calls       *)
(* loadData(), init() and render() is left to the environment.             *)
(*                                                                         *)
(* The DOM under the chart's container element is a sequence of nodes;     *)
(* a node is [kind, text, width, marks], a mark is [key, value, detail].   *)
(* A nullable field is the empty set when null/undefined and {v} when set. *)
(***************************************************************************)
EXTENDS Integers, Sequences, FiniteSets, TLC

\* ------------------------------------------------------------------ bounds
\* Largest number of rows in a loaded data file.
MaxRows == 2

\* Number of timer ids the browser's timer table hands out before reuse.
MaxTimers == 2

\* Longest burst of resize events before the pending callback runs.
MaxBurst == 2

\* Largest number of insight panels a container is let to accumulate.
MaxPanels == 2

\* Largest number of dots the svg of a LineChart is let to accumulate.
MaxDots == 3

\* ------------------------------------------------------------- JS helpers
Null == {}

Some(v) == {v}

Get(o) == CHOOSE v \in o : TRUE

Range(s) == {s[i] : i \in DOMAIN s}

RECURSIVE SumSeq(_)
SumSeq(s) == IF s = <<>> THEN 0 ELSE Head(s) + SumSeq(Tail(s))

\* Array.prototype.indexOf, 0-based, -1 when absent
IndexOf(s, x) ==
    IF x \in Range(s) THEN (CHOOSE i \in DOMAIN s : s[i] = x /\ \A j \in 1..(i - 1) : s[j] # x) - 1
    ELSE -1

\* Array.prototype.sort() without comparator on jurisdiction codes: the
\* codes in lexicographic order
CodeOrder == <<"ACT", "NSW", "NT", "QLD", "SA", "TAS", "VIC", "WA">>

RECURSIVE ProdSeq(_)
ProdSeq(s) == IF s = <<>> THEN 1 ELSE Head(s) * ProdSeq(Tail(s))

\* Keys of a Map / d3.rollup / Set built by one pass over s: each distinct
\* value once, in order of first appearance.
RECURSIVE UniqueInOrder(_)
UniqueInOrder(s) ==
    IF s = <<>> THEN <<>>
    ELSE LET init == UniqueInOrder(SubSeq(s, 1, Len(s) - 1))
             last == s[Len(s)]
         IN IF last \in Range(init) THEN init ELSE Append(init, last)

\* Array.prototype.sort((a, b) => k(b) - k(a)): descending by key, stable
\* (equal keys keep their input order).  k[i] is the key of s[i].
StableSortDesc(s, k) ==
    LET n == Len(s)
        pos(i) == Cardinality({j \in 1..n : k[j] > k[i] \/ (k[j] = k[i] /\ j < i)}) + 1
    IN [r \in 1..n |-> s[CHOOSE i \in 1..n : pos(i) = r]]

\* Array.prototype.sort((a, b) => k(a) - k(b)): ascending by key, stable.
StableSortAsc(s, k) ==
    LET n == Len(s)
        pos(i) == Cardinality({j \in 1..n : k[j] < k[i] \/ (k[j] = k[i] /\ j < i)}) + 1
    IN [r \in 1..n |-> s[CHOOSE i \in 1..n : pos(i) = r]]

\* Number.prototype.toFixed(1) of (x / total) * 100 for x >= 0, total >= 0:
\* 0/0 is NaN and x/0 is Infinity, and toFixed prints them as such.
PercentFixed1(x, total) ==
    IF total = 0
    THEN IF x = 0 THEN "NaN" ELSE "Infinity"
    ELSE LET tenths == (2000 * x + total) \div (2 * total)
         IN ToString(tenths \div 10) \o "." \o ToString(tenths % 10)

\* ------------------------------------------------------------ data domain
Years == {2023, 2024}

\* Unary plus on a year option value ('2023' -> 2023)
ToNumber(str) == CHOOSE n \in Years : ToString(n) = str

SortCodes(s) == StableSortAsc(s, [i \in DOMAIN s |-> IndexOf(CodeOrder, s[i])])

\* Numbers a count cell of a data file can spell
CellNumbers == (0..3) \cup {20, 50, 100}

\* +cell || 0 : a numeral becomes its number, blank / text / NaN become 0
CoerceCount(cell) ==
    IF \E n \in CellNumbers : ToString(n) = cell
    THEN CHOOSE n \in CellNumbers : ToString(n) = cell
    ELSE 0

Node(kind, text, width, marks) ==
    [kind |-> kind, text |-> text, width |-> width, marks |-> marks]

Mark(key, value, detail) == [key |-> key, value |-> value, detail |-> detail]

\* selection.select(kind).remove(): drops the first node of that kind
RECURSIVE RemoveFirst(_, _)
RemoveFirst(c, kind) ==
    IF c = <<>> THEN <<>>
    ELSE IF Head(c).kind = kind THEN Tail(c)
    ELSE <<Head(c)>> \o RemoveFirst(Tail(c), kind)

HasNode(c, kind) == \E i \in DOMAIN c : c[i].kind = kind

NodesOf(c, kind) == SelectSeq(c, LAMBDA n : n.kind = kind)

\* Sequences over S of length at most n
SeqsUpTo(S, n) == UNION {[1..m -> S] : m \in 0..n}

\* ------------------------------------------------------------------ state
VARIABLES
    chart,            \* the chart class the page instantiates
    loadState,        \* promise of loadData(): idle, pending, resolved, rejected
    rawData,          \* this.rawData (DrugEnforcementStackedChart)
    data,             \* this.data
    selectedYear,     \* this.selectedYear
    selected,         \* this.selectedAgeGroups / this.selectedJurisdictions / selected
    selectedMetric,   \* this.selectedMetric
    container,        \* children of the chart's container element
    svg,              \* this.svg is set
    tooltip,          \* this.tooltip: null or [visible, html]
    thrown,           \* uncaught error of the last handler call ("" if none)
    cycles,           \* render() calls made by the last handler call
    clientWidth,      \* width of the container element
    timers,           \* pending setTimeout callbacks (browser timer table)
    resizeTimeout,    \* this.resizeTimeout
    listening,        \* the resize listener is registered on window
    burst,            \* resize events of the current (or last) burst
    page,             \* children of the other chart containers of the fines page
    pointer,          \* event.pageX of the mouse pointer while it is over a shape
    geoData,          \* this.geoData (choropleth charts)
    geoResponse,      \* what the geography fetch of loadGeoJSON() came back with
    response,         \* what the fetch of the data file came back with
    destroyed,        \* destroy() has run: the owner has given the instance up
    cache,            \* DataLoader.cache entry of the one path and sheet
    inflight,         \* loadExcel() calls awaiting their fetch
    fetches           \* fetches begun since the last clearCache() that have not failed

vars == <<chart, loadState, rawData, data, selectedYear, selected, selectedMetric, container,
          svg, tooltip, thrown, cycles, clientWidth, timers, resizeTimeout,
          listening, burst, page, pointer, geoData, geoResponse, response, destroyed,
          cache, inflight, fetches>>

filterVars == <<selectedYear, selected, selectedMetric>>

timerVars == <<clientWidth, timers, resizeTimeout, listening, burst>>

pageVars == <<page, pointer>>

geoVars == <<geoData, geoResponse>>
loaderVars == <<cache, inflight, fetches>>
lifeVars == <<response, destroyed, loaderVars>>

\* =================================================== TestingStateRankingChart
\* Rows of the testing workbook (JURISDICTION, YEAR, METRIC, COUNT)
TSR_Rows ==
    { [JURISDICTION |-> "NSW", YEAR |-> 2023, METRIC |-> "breath_tests_conducted", COUNT |-> "2"],
      [JURISDICTION |-> "VIC", YEAR |-> 2023, METRIC |-> "breath_tests_conducted", COUNT |-> "2"],
      [JURISDICTION |-> "VIC", YEAR |-> 2024, METRIC |-> "drug_tests_conducted",   COUNT |-> "3"],
      [JURISDICTION |-> "NSW", YEAR |-> 2024, METRIC |-> "drug_tests_conducted",   COUNT |-> "n/a"] }

\* A workbook of three records: breath and drug tests of NSW, breath tests
\* of VIC, all of 2023
TSR_Example ==
    << [JURISDICTION |-> "NSW", YEAR |-> 2023, METRIC |-> "breath_tests_conducted", COUNT |-> "100"],
       [JURISDICTION |-> "NSW", YEAR |-> 2023, METRIC |-> "drug_tests_conducted",   COUNT |-> "20"],
       [JURISDICTION |-> "VIC", YEAR |-> 2023, METRIC |-> "breath_tests_conducted", COUNT |-> "50"] >>

\* A workbook with a record of a metric that is neither of the two test
\* types
TSR_OtherMetric ==
    << [JURISDICTION |-> "NSW", YEAR |-> 2023, METRIC |-> "breath_tests_conducted", COUNT |-> "2"],
       [JURISDICTION |-> "NSW", YEAR |-> 2023, METRIC |-> "positive_breath_tests",  COUNT |-> "1"] >>

TSR_Files == SeqsUpTo(TSR_Rows, MaxRows) \cup {TSR_Example, TSR_OtherMetric}

TSR_parse(rows) ==
    [i \in DOMAIN rows |->
        [jurisdiction |-> rows[i].JURISDICTION,
         year         |-> rows[i].YEAR,
         metric       |-> rows[i].METRIC,
         count        |-> CoerceCount(rows[i].COUNT)]]

TSR_availableYears(d) ==
    LET ys == UniqueInOrder([i \in DOMAIN d |-> d[i].year])
    IN StableSortAsc(ys, ys)

Widths == {500, 1000}

TSR_getResponsiveDimensions(w) ==
    IF w < 576 THEN [width |-> w - 20, height |-> 400]
    ELSE IF w < 768 THEN [width |-> w - 30, height |-> 450]
    ELSE IF w < 992 THEN [width |-> w - 40, height |-> 500]
    ELSE [width |-> IF w - 40 < 1200 THEN w - 40 ELSE 1200, height |-> 550]

TSR_filtered(d, year) ==
    IF year # "all" THEN SelectSeq(d, LAMBDA r : r.year = ToNumber(year)) ELSE d

\* A sort that orders equal totals by last appearance instead
TSR_sortByTotalUnstable(groups) ==
    LET n == Len(groups)
        pos(i) == Cardinality({j \in 1..n :
                      \/ groups[j].totalTests > groups[i].totalTests
                      \/ (groups[j].totalTests = groups[i].totalTests /\ j > i)}) + 1
    IN [r \in 1..n |-> groups[CHOOSE i \in 1..n : pos(i) = r]]

\* A sort by ascending total
TSR_sortByTotalAscending(groups) ==
    StableSortAsc(groups, [i \in DOMAIN groups |-> groups[i].totalTests])

TSR_sortByTotal(groups) ==
    StableSortDesc(groups, [i \in DOMAIN groups |-> groups[i].totalTests])

TSR_aggregateData(dopt, year) ==
    IF dopt = Null THEN <<>>
    ELSE
    LET f == TSR_filtered(Get(dopt), year)
        js == UniqueInOrder([i \in DOMAIN f |-> f[i].jurisdiction])
        of(j) == SelectSeq(f, LAMBDA r : r.jurisdiction = j)
        counts(s) == [i \in DOMAIN s |-> s[i].count]
        groups == [i \in DOMAIN js |->
            [jurisdiction |-> js[i],
             totalTests   |-> SumSeq(counts(of(js[i]))),
             alcoholTests |-> SumSeq(counts(SelectSeq(of(js[i]),
                                 LAMBDA r : r.metric = "breath_tests_conducted"))),
             drugTests    |-> SumSeq(counts(SelectSeq(of(js[i]),
                                 LAMBDA r : r.metric = "drug_tests_conducted")))]]
        sorted == TSR_sortByTotal(groups)
    IN [i \in DOMAIN sorted |->
          [jurisdiction |-> sorted[i].jurisdiction,
           totalTests   |-> sorted[i].totalTests,
           alcoholTests |-> sorted[i].alcoholTests,
           drugTests    |-> sorted[i].drugTests,
           rank         |-> i]]

TSR_getChartSubtitle(year) ==
    IF year # "all" THEN " (Year: " \o year \o ")" ELSE " (All Years Combined)"

TSR_NoData == "No data available for selected year"

\* The svg node render() appends for data d (non-null), year filter and width w
TSR_svgNode(dopt, year, w) ==
    LET dims == TSR_getResponsiveDimensions(w)
        chartData == TSR_aggregateData(dopt, year)
    IN IF chartData = <<>>
       THEN Node("svg", TSR_NoData, dims.width, <<>>)
       ELSE Node("svg", "State Rankings by Total Tests" \o TSR_getChartSubtitle(year),
                 dims.width,
                 [i \in DOMAIN chartData |->
                     Mark(chartData[i].jurisdiction, chartData[i].totalTests,
                          <<chartData[i].alcoholTests, chartData[i].drugTests>>)])

\* render(): the container it leaves behind
TSR_rendered(c, dopt, year, w) ==
    IF dopt = Null THEN c
    ELSE Append(RemoveFirst(c, "svg"), TSR_svgNode(dopt, year, w))

\* render() as a step of a handler
TSR_render ==
    /\ container' = TSR_rendered(container, data', selectedYear', clientWidth')
    /\ svg' = IF data' = Null THEN svg ELSE TRUE
    /\ cycles' = IF data' = Null THEN 0 ELSE 1
    /\ thrown' = ""

TSR_controls(dopt) ==
    LET ys == IF dopt = Null THEN <<>> ELSE TSR_availableYears(Get(dopt))
    IN Node("ranking-filter-controls", "Year:", 0,
            <<Mark("all", 0, <<>>)>> \o [i \in DOMAIN ys |-> Mark(ToString(ys[i]), 0, <<>>)])

TSR_LoadData ==
    /\ chart = "TSR" /\ loadState = "idle"
    /\ loadState' = "pending"
    /\ thrown' = "" /\ cycles' = 0
    /\ UNCHANGED <<chart, rawData, data, filterVars, container, svg, tooltip, timerVars, pageVars, geoVars, lifeVars>>

\* What fetch(path) can come back with: a rejection (no network), the
\* workbook, or the error page of the server, as HTML or as a line of text
Response(fetch, ok, body) == [fetch |-> fetch, ok |-> ok, body |-> body]

NetworkError == Response("rejects", FALSE, "none")
Workbook == Response("resolves", TRUE, "workbook")
CorruptFile == Response("resolves", TRUE, "html")
NotFoundPage == Response("resolves", FALSE, "html")
NotFoundText == Response("resolves", FALSE, "text")

Responses == {NetworkError, Workbook, CorruptFile, NotFoundPage, NotFoundText}

\* loadExcelFile(path) and sheet_to_json of the first sheet: the rejection of
\* fetch is passed on; any body that arrives is handed to XLSX.read, which
\* throws on HTML without a table and reads a line of text as a sheet with a
\* header row and no data rows
TSR_loadExcelFile(resp, f) ==
    IF resp.fetch = "rejects" THEN [throws |-> TRUE, rows |-> <<>>]
    ELSE IF resp.body = "html" THEN [throws |-> TRUE, rows |-> <<>>]
    ELSE IF resp.body = "text" THEN [throws |-> FALSE, rows |-> <<>>]
    ELSE [throws |-> FALSE, rows |-> f]

TSR_LoadResolve ==
    /\ chart = "TSR" /\ loadState = "pending"
    /\ \E f \in TSR_Files, resp \in Responses :
         /\ ~TSR_loadExcelFile(resp, f).throws
         /\ resp.body = "workbook" \/ f = <<>>
         /\ response' = Some(resp)
         /\ data' = Some(TSR_parse(TSR_loadExcelFile(resp, f).rows))
    /\ loadState' = "resolved"
    /\ thrown' = "" /\ cycles' = 0
    /\ UNCHANGED <<chart, rawData, filterVars, container, svg, tooltip, timerVars, pageVars, geoVars,
                   destroyed, loaderVars>>

\* fetch rejects or XLSX.read throws: loadData rethrows, this.data stays null
TSR_LoadReject ==
    /\ chart = "TSR" /\ loadState = "pending"
    /\ \E resp \in Responses :
         /\ TSR_loadExcelFile(resp, <<>>).throws
         /\ response' = Some(resp)
    /\ loadState' = "rejected"
    /\ thrown' = "LoadError" /\ cycles' = 0
    /\ UNCHANGED <<chart, rawData, data, filterVars, container, svg, tooltip, timerVars, pageVars, geoVars,
                   destroyed, loaderVars>>

\* init(), which the owner calls once on an instance it has not destroyed
TSR_Init ==
    /\ chart = "TSR" /\ ~listening /\ ~destroyed
    /\ container' = IF HasNode(container, "ranking-filter-controls")
                    THEN container
                    ELSE Append(container, TSR_controls(data))
    /\ tooltip' = IF tooltip = Null
                  THEN Some([visible |-> FALSE, html |-> <<>>, attached |-> TRUE])
                  ELSE tooltip
    /\ listening' = TRUE
    /\ thrown' = "" /\ cycles' = 0
    /\ UNCHANGED <<chart, loadState, rawData, data, filterVars, svg,
                   clientWidth, timers, resizeTimeout, burst, pageVars, geoVars, lifeVars>>

TSR_Render ==
    /\ chart = "TSR"
    /\ UNCHANGED <<chart, loadState, rawData, data, filterVars, tooltip, timerVars, pageVars, geoVars, lifeVars>>
    /\ TSR_render

TSR_Options ==
    LET cs == NodesOf(container, "ranking-filter-controls")
    IN IF cs = <<>> THEN {} ELSE {m.key : m \in Range(cs[1].marks)}

\* 'change' on the year dropdown
TSR_ChangeYear(v) ==
    /\ chart = "TSR" /\ v \in TSR_Options /\ v # selectedYear
    /\ selectedYear' = v
    /\ UNCHANGED <<chart, loadState, rawData, data, selected, selectedMetric, tooltip, timerVars, pageVars, geoVars, lifeVars>>
    /\ TSR_render

\* 'click' on the Clear Filter button (shown only while a year is selected)
TSR_ClearFilter ==
    /\ chart = "TSR" /\ HasNode(container, "ranking-filter-controls")
    /\ selectedYear # "all"
    /\ selectedYear' = "all"
    /\ UNCHANGED <<chart, loadState, rawData, data, selected, selectedMetric, tooltip, timerVars, pageVars, geoVars, lifeVars>>
    /\ TSR_render

\* The bars of the svg the container currently shows
TSR_Bars ==
    LET ss == NodesOf(container, "svg")
    IN IF ss = <<>> THEN <<>> ELSE ss[1].marks

TSR_tooltipContent(year, bar) ==
    <<bar.key, year,
      PercentFixed1(bar.detail[1], bar.value),
      PercentFixed1(bar.detail[2], bar.value)>>

\* 'mouseover' on a bar: showTooltip(event, d).  A bar of width 0 cannot be
\* pointed at; this.tooltip is null until init().
TSR_MouseOver(i) ==
    /\ chart = "TSR" /\ i \in DOMAIN TSR_Bars
    /\ TSR_Bars[i].value > 0
    /\ IF tooltip = Null
       THEN thrown' = "TypeError" /\ UNCHANGED tooltip
       ELSE /\ tooltip' = Some([visible |-> TRUE,
                                html |-> TSR_tooltipContent(selectedYear, TSR_Bars[i]),
                                attached |-> Get(tooltip).attached])
            /\ thrown' = ""
    /\ cycles' = 0
    /\ UNCHANGED <<chart, loadState, rawData, data, filterVars, container, svg, timerVars, pageVars, geoVars, lifeVars>>

\* 'mouseout' on a bar: hideTooltip()
TSR_MouseOut ==
    /\ chart = "TSR" /\ tooltip # Null /\ Get(tooltip).visible
    /\ tooltip' = Some([Get(tooltip) EXCEPT !.visible = FALSE])
    /\ thrown' = "" /\ cycles' = 0
    /\ UNCHANGED <<chart, loadState, rawData, data, filterVars, container, svg, timerVars, pageVars, geoVars, lifeVars>>

\* setTimeout: the browser returns an id no pending or remembered timer has
FreshTimer(pending, remembered) ==
    CHOOSE id \in 1..MaxTimers :
        /\ id \notin pending /\ Some(id) # remembered
        /\ \A other \in 1..MaxTimers :
              (other \notin pending /\ Some(other) # remembered) => id <= other

\* handleResize(): the timer table and this.resizeTimeout it leaves behind
TSR_handleResizeNoClear(pending, remembered) ==
    LET id == FreshTimer(pending, remembered)
    IN [timers |-> pending \cup {id}, resizeTimeout |-> Some(id)]

TSR_handleResize(pending, remembered) ==
    LET cleared == pending \ remembered
        id == FreshTimer(cleared, remembered)
    IN [timers |-> cleared \cup {id}, resizeTimeout |-> Some(id)]

\* The window is resized to width w (a 'resize' event)
TSR_Resize(w) ==
    /\ chart = "TSR" /\ w \in Widths
    /\ burst < MaxBurst \/ timers = {}
    /\ Cardinality(timers) < MaxTimers
    /\ clientWidth' = w
    /\ IF listening
       THEN /\ timers' = TSR_handleResize(timers, resizeTimeout).timers
            /\ resizeTimeout' = TSR_handleResize(timers, resizeTimeout).resizeTimeout
            /\ burst' = IF timers = {} THEN 1 ELSE burst + 1
       ELSE UNCHANGED <<timers, resizeTimeout, burst>>
    /\ thrown' = "" /\ cycles' = 0
    /\ UNCHANGED <<chart, loadState, rawData, data, filterVars, container, svg,
                   tooltip, listening, pageVars, geoVars, lifeVars>>

\* 250 ms pass without a resize event: the pending callback runs
TSR_TimerFire(id) ==
    /\ chart = "TSR" /\ id \in timers
    /\ timers' = timers \ {id}
    /\ UNCHANGED <<chart, loadState, rawData, data, filterVars, tooltip,
                   clientWidth, resizeTimeout, listening, burst, pageVars, geoVars, lifeVars>>
    /\ TSR_render

\* destroy(): the resize listener is taken off the window, the tooltip
\* element is taken out of the document and the container is emptied;
\* this.data, this.tooltip and a pending debounce timer stay as they are
TSR_Destroy ==
    /\ chart = "TSR" /\ ~destroyed
    /\ listening' = FALSE
    /\ tooltip' = IF tooltip = Null THEN Null
                  ELSE Some([Get(tooltip) EXCEPT !.attached = FALSE])
    /\ container' = <<>>
    /\ destroyed' = TRUE
    /\ thrown' = "" /\ cycles' = 0
    /\ UNCHANGED <<chart, loadState, rawData, data, filterVars, svg,
                   clientWidth, timers, resizeTimeout, burst, pageVars, geoVars, response, loaderVars>>

\* ================================================ DrugEnforcementStackedChart
\* Rows of the enforcement CSV after the row accessor of d3.csv
DES_Rows ==
    { [year |-> 2023, jurisdiction |-> "NSW", positiveTests |-> 2, charges |-> 1],
      [year |-> 2023, jurisdiction |-> "VIC", positiveTests |-> 1, charges |-> 2],
      [year |-> 2024, jurisdiction |-> "VIC", positiveTests |-> 0, charges |-> 1],
      [year |-> 2024, jurisdiction |-> "NSW", positiveTests |-> 2, charges |-> 2] }

DES_Files == SeqsUpTo(DES_Rows, MaxRows)

DES_sortByTotal(rows) ==
    StableSortDesc(rows, [i \in DOMAIN rows |-> rows[i].positiveTests + rows[i].charges])

\* processData() on a loaded rawData: the new this.data
DES_processData(raw, year) ==
    IF year = "both"
    THEN LET js == UniqueInOrder([i \in DOMAIN raw |-> raw[i].jurisdiction])
             of(j) == SelectSeq(raw, LAMBDA r : r.jurisdiction = j)
         IN DES_sortByTotal(
              [i \in DOMAIN js |->
                 [jurisdiction  |-> js[i],
                  positiveTests |-> SumSeq([k \in DOMAIN of(js[i]) |-> of(js[i])[k].positiveTests]),
                  charges       |-> SumSeq([k \in DOMAIN of(js[i]) |-> of(js[i])[k].charges])]])
    ELSE DES_sortByTotal(SelectSeq(raw, LAMBDA r : r.year = ToNumber(year)))

DES_yearButtons == <<"both", "2023", "2024">>

\* init(): the chart container's children (buttons, svg, tooltip); the
\* button of this.selectedYear gets the active background (value 1)
DES_initContainer(year) ==
    << Node("year-filter", "", 0,
            [i \in 1..3 |-> Mark(DES_yearButtons[i],
                                 IF DES_yearButtons[i] = year THEN 1 ELSE 0, <<>>)]),
       Node("svg", "", 0, <<>>),
       Node("chart-tooltip", "", 0, <<>>) >>

\* What render() draws into this.svg: the two layers of the stack
DES_svgNode(d) ==
    Node("svg", "Number of Cases", 0,
         [i \in DOMAIN d |-> Mark(d[i].jurisdiction, d[i].charges, <<>>)]
         \o [i \in DOMAIN d |-> Mark(d[i].jurisdiction, d[i].positiveTests, <<>>)])

ReplaceSvg(c, node) == [i \in DOMAIN c |-> IF c[i].kind = "svg" THEN node ELSE c[i]]

DES_topJurisdiction(d) ==
    StableSortDesc(d, [i \in DOMAIN d |-> d[i].positiveTests])

\* filter(positiveTests > 0) sorted by charges / positiveTests, descending;
\* the ratios are compared over their common denominator
DES_byChargeRate(d) ==
    LET f == SelectSeq(d, LAMBDA r : r.positiveTests > 0)
        den == ProdSeq([i \in DOMAIN f |-> f[i].positiveTests])
    IN StableSortDesc(f, [i \in DOMAIN f |-> (f[i].charges * den) \div f[i].positiveTests])

DES_insightMarks(d) ==
    LET totalPositiveTests == SumSeq([i \in DOMAIN d |-> d[i].positiveTests])
        totalCharges == SumSeq([i \in DOMAIN d |-> d[i].charges])
        chargeRate == IF totalPositiveTests > 0
                      THEN PercentFixed1(totalCharges, totalPositiveTests) ELSE "0"
        top == DES_topJurisdiction(d)[1]
        high == DES_byChargeRate(d)[1]
    IN << Mark(chargeRate, totalCharges, <<totalPositiveTests>>),
          Mark(top.jurisdiction, top.positiveTests, <<>>),
          Mark(high.jurisdiction, high.charges, <<>>),
          Mark(PercentFixed1(high.charges, high.positiveTests), 0, <<>>) >>

DES_yearLabel(year) == IF year = "both" THEN "2023-2024" ELSE year

\* render(): the container it leaves behind and the error it throws.  The
\* insight panel is appended to the container before its template is
\* evaluated; the template reads .jurisdiction of the first element of two
\* sorted lists, which is undefined when the list is empty.
DES_render(c, d, year, hasSvg) ==
    IF ~hasSvg
    THEN [container |-> c, thrown |-> "TypeError"]
    ELSE LET drawn == ReplaceSvg(c, DES_svgNode(d))
         IN IF DES_topJurisdiction(d) = <<>> \/ DES_byChargeRate(d) = <<>>
            THEN [container |-> Append(drawn, Node("insight", "", 0, <<>>)),
                  thrown |-> "TypeError"]
            ELSE [container |-> Append(drawn,
                                  Node("insight", DES_yearLabel(year), 0, DES_insightMarks(d))),
                  thrown |-> ""]

PanelCount(c) == Len(NodesOf(c, "insight"))

DES_LoadData ==
    /\ chart = "DES" /\ loadState = "idle"
    /\ loadState' = "pending"
    /\ thrown' = "" /\ cycles' = 0
    /\ UNCHANGED <<chart, rawData, data, filterVars, container, svg, tooltip, timerVars, pageVars, geoVars, lifeVars>>

\* d3.csv resolves: rawData is set and processData() runs (no render)
DES_LoadResolve ==
    /\ chart = "DES" /\ loadState = "pending"
    /\ \E f \in DES_Files :
         /\ rawData' = Some(f)
         /\ data' = Some(DES_processData(f, selectedYear))
    /\ loadState' = "resolved"
    /\ thrown' = "" /\ cycles' = 0
    /\ UNCHANGED <<chart, filterVars, container, svg, tooltip, timerVars, pageVars, geoVars, lifeVars>>

DES_LoadReject ==
    /\ chart = "DES" /\ loadState = "pending"
    /\ loadState' = "rejected"
    /\ thrown' = "LoadError" /\ cycles' = 0
    /\ UNCHANGED <<chart, rawData, data, filterVars, container, svg, tooltip, timerVars, pageVars, geoVars, lifeVars>>

DES_Init ==
    /\ chart = "DES" /\ ~svg
    /\ container' = DES_initContainer(selectedYear)
    /\ svg' = TRUE
    /\ tooltip' = Some([visible |-> FALSE, html |-> <<>>])
    /\ thrown' = "" /\ cycles' = 0
    /\ UNCHANGED <<chart, loadState, rawData, data, filterVars, timerVars, pageVars, geoVars, lifeVars>>

\* The page calls render()
DES_Render ==
    /\ chart = "DES" /\ PanelCount(container) < MaxPanels
    /\ container' = DES_render(container, Get(data), selectedYear, svg).container
    /\ thrown' = DES_render(container, Get(data), selectedYear, svg).thrown
    /\ cycles' = 1
    /\ UNCHANGED <<chart, loadState, rawData, data, filterVars, svg, tooltip, timerVars, pageVars, geoVars, lifeVars>>

\* 'click' on a year button: selectedYear = year; processData(); render().
\* processData() throws on an undefined rawData, before render() is reached.
DES_ClickYear(year) ==
    /\ chart = "DES" /\ HasNode(container, "year-filter")
    /\ year \in Range(DES_yearButtons)
    /\ PanelCount(container) < MaxPanels
    /\ selectedYear' = year
    /\ IF rawData = Null
       THEN /\ thrown' = "TypeError" /\ cycles' = 0
            /\ UNCHANGED <<data, container>>
       ELSE /\ data' = Some(DES_processData(Get(rawData), year))
            /\ container' = DES_render(container, Get(data'), year, svg).container
            /\ thrown' = DES_render(container, Get(data'), year, svg).thrown
            /\ cycles' = 1
    /\ UNCHANGED <<chart, loadState, rawData, selected, selectedMetric, svg, tooltip, timerVars, pageVars, geoVars, lifeVars>>

\* ========================================================== DrugTypeBarChart
\* Rows of the drug type CSV after the row accessor of d3.csv
DTB_Rows ==
    { [drugType |-> "CANNABIS", count |-> 0],
      [drugType |-> "COCAINE",  count |-> 0],
      [drugType |-> "ECSTASY",  count |-> 1],
      [drugType |-> "CANNABIS", count |-> 3] }

DTB_Files == SeqsUpTo(DTB_Rows, MaxRows)

\* loadData(): this.data.sort((a, b) => b.count - a.count)
DTB_sortByCount(rows) ==
    StableSortDesc(rows, [i \in DOMAIN rows |-> rows[i].count])

DTB_initContainer ==
    << Node("svg", "", 0, <<>>), Node("chart-tooltip", "", 0, <<>>) >>

DTB_svgNode(d) ==
    Node("svg", "Number of Positive Tests", 0,
         [i \in DOMAIN d |-> Mark(d[i].drugType, d[i].count, <<>>)])

\* The shares the insight panel prints: count / totalCases * 100, toFixed(1)
DTB_insightMarks(d) ==
    LET totalCases == SumSeq([i \in DOMAIN d |-> d[i].count])
    IN << Mark(PercentFixed1(d[1].count, totalCases), d[1].count, <<>>),
          Mark(PercentFixed1(d[2].count, totalCases), d[2].count, <<>>),
          Mark(PercentFixed1(d[1].count + d[2].count, totalCases),
               d[1].count + d[2].count, <<>>) >>

\* render(): both panels are appended to the container before the insight
\* template is evaluated; the template reads this.data[0] and this.data[1].
DTB_render(c, d, hasSvg) ==
    IF ~hasSvg
    THEN [container |-> c, thrown |-> "TypeError"]
    ELSE LET drawn == Append(ReplaceSvg(c, DTB_svgNode(d)), Node("breakdown", "", 0, <<>>))
         IN IF Len(d) < 2
            THEN [container |-> Append(drawn, Node("insight", "", 0, <<>>)),
                  thrown |-> "TypeError"]
            ELSE [container |-> Append(drawn,
                                  Node("insight", d[1].drugType, 0, DTB_insightMarks(d))),
                  thrown |-> ""]

DTB_LoadData ==
    /\ chart = "DTB" /\ loadState = "idle"
    /\ loadState' = "pending"
    /\ thrown' = "" /\ cycles' = 0
    /\ UNCHANGED <<chart, rawData, data, filterVars, container, svg, tooltip, timerVars, pageVars, geoVars, lifeVars>>

DTB_LoadResolve ==
    /\ chart = "DTB" /\ loadState = "pending"
    /\ \E f \in DTB_Files : data' = Some(DTB_sortByCount(f))
    /\ loadState' = "resolved"
    /\ thrown' = "" /\ cycles' = 0
    /\ UNCHANGED <<chart, rawData, filterVars, container, svg, tooltip, timerVars, pageVars, geoVars, lifeVars>>

DTB_LoadReject ==
    /\ chart = "DTB" /\ loadState = "pending"
    /\ loadState' = "rejected"
    /\ thrown' = "LoadError" /\ cycles' = 0
    /\ UNCHANGED <<chart, rawData, data, filterVars, container, svg, tooltip, timerVars, pageVars, geoVars, lifeVars>>

DTB_Init ==
    /\ chart = "DTB" /\ ~svg
    /\ container' = DTB_initContainer
    /\ svg' = TRUE
    /\ tooltip' = Some([visible |-> FALSE, html |-> <<>>])
    /\ thrown' = "" /\ cycles' = 0
    /\ UNCHANGED <<chart, loadState, rawData, data, filterVars, timerVars, pageVars, geoVars, lifeVars>>

\* The page calls render()
DTB_Render ==
    /\ chart = "DTB" /\ PanelCount(container) < MaxPanels
    /\ container' = DTB_render(container, Get(data), svg).container
    /\ thrown' = DTB_render(container, Get(data), svg).thrown
    /\ cycles' = 1
    /\ UNCHANGED <<chart, loadState, rawData, data, filterVars, svg, tooltip, timerVars, pageVars, geoVars, lifeVars>>

\* =================================================== renderOffenseDistribution
\* Rows loadFinesData() returns (a blank METRIC cell is null, shown as "";
\* a blank YEAR cell is null, shown as Null)
OFF_Rows ==
    { [YEAR |-> Null,       JURISDICTION |-> "VIC", METRIC |-> "speed_fines",      FINES |-> 1],
      [YEAR |-> Some(2024), JURISDICTION |-> "NSW", METRIC |-> "speed_fines",      FINES |-> 2],
      [YEAR |-> Some(2023), JURISDICTION |-> "NSW", METRIC |-> "mobile_phone_use", FINES |-> 3],
      [YEAR |-> Some(2023), JURISDICTION |-> "NSW", METRIC |-> "",                 FINES |-> 1] }

OFF_Files == SeqsUpTo(OFF_Rows, MaxRows)

OFF_jurisdictions(d) ==
    SortCodes(UniqueInOrder(SelectSeq([i \in DOMAIN d |-> d[i].JURISDICTION],
                                      LAMBDA j : j # "")))

\* Records passing the jurisdiction filter
OFF_filtered(d, sel) ==
    SelectSeq(d, LAMBDA r : IF sel = {} THEN FALSE ELSE r.JURISDICTION \in sel)

OFF_sortByValue(groups) ==
    StableSortDesc(groups, [i \in DOMAIN groups |-> groups[i].value])

\* d3.rollup by METRIC summing FINES, groups with a falsy metric removed,
\* sorted by value descending
OFF_grouped(d, sel) ==
    LET f == OFF_filtered(d, sel)
        ms == UniqueInOrder([i \in DOMAIN f |-> f[i].METRIC])
        of(m) == SelectSeq(f, LAMBDA r : r.METRIC = m)
        groups == [i \in DOMAIN ms |->
                     [metric |-> ms[i],
                      value  |-> SumSeq([k \in DOMAIN of(ms[i]) |-> of(ms[i])[k].FINES])]]
    IN OFF_sortByValue(SelectSeq(groups, LAMBDA g : g.metric # ""))

OFF_NoData == "No data to display. Select at least one jurisdiction."

OFF_filterCard(d) ==
    LET js == OFF_jurisdictions(d)
    IN Node("jurisdiction-filter-card", "Filter by Jurisdiction", 0,
            [i \in DOMAIN js |-> Mark(js[i], 0, <<>>)])

\* renderChart(): the chart wrapper's only child
OFF_renderChart(d, sel) ==
    LET grouped == OFF_grouped(d, sel)
    IN IF grouped = <<>>
       THEN Node("placeholder", OFF_NoData, 0, <<>>)
       ELSE Node("svg", "Total Fines", 0,
                 [i \in DOMAIN grouped |-> Mark(grouped[i].metric, grouped[i].value, <<>>)])

\* ---- the other charts of the fines page
\* renderTrendsOverTime: FINES summed by YEAR over the rows that have one,
\* sorted by year ascending
TRD_series(d) ==
    LET f == SelectSeq(d, LAMBDA r : r.YEAR # Null)
        ys == UniqueInOrder([i \in DOMAIN f |-> Get(f[i].YEAR)])
        of(y) == SelectSeq(f, LAMBDA r : Get(r.YEAR) = y)
        series == [i \in DOMAIN ys |->
                     [year |-> ys[i],
                      totalFines |-> SumSeq([k \in DOMAIN of(ys[i]) |-> of(ys[i])[k].FINES])]]
    IN StableSortAsc(series, [i \in DOMAIN series |-> series[i].year])

\* renderTrendsOverTime(data): the line with one dot per year; with an
\* empty series d3.max is undefined and max.toLocaleString() throws
TRD_render(d) ==
    LET series == TRD_series(d)
    IN IF series = <<>>
       THEN [content |-> <<Node("svg", "Total Fines", 0, <<>>)>>, thrown |-> "TypeError"]
       ELSE [content |-> <<Node("svg", "Total Fines", 0,
                               [i \in DOMAIN series |->
                                  Mark(ToString(series[i].year), series[i].totalFines, <<>>)])>>,
             thrown |-> ""]

FinesError == <<Node("error", "Unable to load fines data", 0, <<>>)>>

\* The containers before the page script has run (peer: the filter buttons
\* of a second instance of the chart class in the same document, if any)
EmptyPage == [trends |-> <<>>, detection |-> <<>>, age |-> <<>>, peer |-> Null]

\* showFinesError(message): the message in every chart container
ErrorPage == [trends |-> FinesError, detection |-> FinesError, age |-> FinesError,
              peer |-> Null]

\* The four render calls went through (the charts of detection method and
\* of age group are kept as one node each)
DrawnPage(d) ==
    [trends    |-> TRD_render(d).content,
     detection |-> <<Node("chart", "detection-method-chart", 0, <<>>)>>,
     age       |-> <<Node("chart", "age-group-chart", 0, <<>>)>>,
     peer      |-> Null]

\* A page that starts loadFinesData() again after a failure
OFF_DOMContentLoadedRetry ==
    /\ chart = "OFF" /\ loadState \in {"idle", "rejected"}
    /\ loadState' = "pending"
    /\ thrown' = "" /\ cycles' = 0
    /\ UNCHANGED <<chart, rawData, data, filterVars, container, svg, tooltip, timerVars, pageVars, geoVars, lifeVars>>

\* DOMContentLoaded: the page starts loadFinesData()
OFF_DOMContentLoaded ==
    /\ chart = "OFF" /\ loadState = "idle"
    /\ loadState' = "pending"
    /\ thrown' = "" /\ cycles' = 0
    /\ UNCHANGED <<chart, rawData, data, filterVars, container, svg, tooltip, timerVars, pageVars, geoVars, lifeVars>>

\* The data arrives: renderOffenseDistribution(data), then the render
\* functions of the other charts; an error of any of them is caught and
\* showFinesError() overwrites every container
OFF_LoadResolve ==
    /\ chart = "OFF" /\ loadState = "pending"
    /\ response' = Some(Workbook)
    /\ \E f \in OFF_Files :
         /\ data' = Some(f)
         /\ selected' = Range(OFF_jurisdictions(f))
         /\ IF TRD_render(f).thrown = ""
            THEN /\ container' = <<OFF_filterCard(f), OFF_renderChart(f, selected')>>
                 /\ page' = DrawnPage(f)
            ELSE /\ container' = FinesError
                 /\ page' = ErrorPage
    /\ loadState' = "resolved"
    /\ thrown' = "" /\ cycles' = 1
    /\ UNCHANGED <<chart, rawData, selectedYear, selectedMetric, svg, tooltip, timerVars,
                   pointer, geoVars, destroyed, loaderVars>>

\* loadFinesData(): the rejection of fetch, a response that is not ok and a
\* body that XLSX.read cannot parse all throw
OFF_loadFails(resp) == resp.fetch = "rejects" \/ ~resp.ok \/ resp.body = "html"

\* A catch block that only logs: the containers stay as they were
OFF_LoadRejectSilent ==
    /\ chart = "OFF" /\ loadState = "pending"
    /\ \E resp \in Responses : OFF_loadFails(resp) /\ response' = Some(resp)
    /\ loadState' = "rejected"
    /\ thrown' = "" /\ cycles' = 0
    /\ UNCHANGED <<chart, rawData, data, filterVars, container, svg, tooltip, timerVars, pageVars, geoVars,
                   destroyed, loaderVars>>

\* The load fails: the catch block calls showFinesError()
OFF_LoadReject ==
    /\ chart = "OFF" /\ loadState = "pending"
    /\ \E resp \in Responses : OFF_loadFails(resp) /\ response' = Some(resp)
    /\ loadState' = "rejected"
    /\ container' = FinesError
    /\ page' = ErrorPage
    /\ thrown' = "" /\ cycles' = 0
    /\ UNCHANGED <<chart, rawData, data, filterVars, svg, tooltip, timerVars, pointer, geoVars,
                   destroyed, loaderVars>>

\* A handler that sets selected and leaves the chart as it is
OFF_setSelectedNoRender(sel) ==
    /\ selected' = sel
    /\ thrown' = "" /\ cycles' = 0
    /\ UNCHANGED <<chart, loadState, rawData, data, selectedYear, selectedMetric,
                   container, svg, tooltip, timerVars, pageVars, geoVars, lifeVars>>

\* A handler of the filter card sets selected, then renderChart()
OFF_setSelected(sel) ==
    /\ selected' = sel
    /\ container' = <<container[1], OFF_renderChart(Get(data), sel)>>
    /\ thrown' = "" /\ cycles' = 1
    /\ UNCHANGED <<chart, loadState, rawData, data, selectedYear, selectedMetric, svg, tooltip, timerVars, pageVars, geoVars, lifeVars>>

OFF_SelectAll ==
    /\ chart = "OFF" /\ HasNode(container, "jurisdiction-filter-card")
    /\ OFF_setSelected(Range(OFF_jurisdictions(Get(data))))

OFF_ClearAll ==
    /\ chart = "OFF" /\ HasNode(container, "jurisdiction-filter-card")
    /\ OFF_setSelected({})

OFF_ChipClick(j) ==
    /\ chart = "OFF" /\ HasNode(container, "jurisdiction-filter-card")
    /\ \E m \in Range(container[1].marks) : m.key = j
    /\ OFF_setSelected(IF j \in selected THEN selected \ {j} ELSE selected \cup {j})

\* ================================================================ AgeBarChart
\* Rows of the age CSV after the row accessor (year, ageGroup, count)
AGE_Rows ==
    { [year |-> 2023, ageGroup |-> "26-39",    count |-> 2],
      [year |-> 2023, ageGroup |-> "17-25",    count |-> 2],
      [year |-> 2023, ageGroup |-> "All ages", count |-> 3],
      [year |-> 2024, ageGroup |-> "17-25",    count |-> 1] }

AGE_Files == SeqsUpTo(AGE_Rows, MaxRows)

AGE_isSentinel(age) == age = "All ages" \/ age = "Unknown"

\* [...new Set(data.map(d => d.ageGroup))] without 'All ages' and 'Unknown'
AGE_allAgeGroups(d) ==
    SelectSeq(UniqueInOrder([i \in DOMAIN d |-> d[i].ageGroup]),
              LAMBDA age : ~AGE_isSentinel(age))

AGE_order == <<"0-16", "17-25", "26-39", "40-64", "65 and over">>

AGE_chips(d) ==
    LET gs == AGE_allAgeGroups(d)
    IN StableSortAsc(gs, [i \in DOMAIN gs |-> IndexOf(AGE_order, gs[i])])

AGE_years(d) ==
    LET ys == SelectSeq(UniqueInOrder([i \in DOMAIN d |-> d[i].year]), LAMBDA y : y >= 2023)
    IN StableSortAsc(ys, ys)

\* A filter that keeps the selected age groups of every year
AGE_yearDataAnyYear(d, year, sel) ==
    SelectSeq(d, LAMBDA r : r.ageGroup \in Range(sel))

AGE_yearData(d, year, sel) ==
    SelectSeq(d, LAMBDA r : Some(r.year) = year /\ r.ageGroup \in Range(sel))

AGE_sortByCount(groups) ==
    StableSortDesc(groups, [i \in DOMAIN groups |-> groups[i].count])

\* d3.rollup by ageGroup summing count, sorted by count descending
AGE_aggregate(rows) ==
    LET gs == UniqueInOrder([i \in DOMAIN rows |-> rows[i].ageGroup])
        of(g) == SelectSeq(rows, LAMBDA r : r.ageGroup = g)
    IN AGE_sortByCount(
         [i \in DOMAIN gs |->
            [ageGroup |-> gs[i],
             count    |-> SumSeq([k \in DOMAIN of(gs[i]) |-> of(gs[i])[k].count])]])

AGE_NoData == "Select age groups to view data"

AGE_svgNode(d, year, sel) ==
    LET chartData == AGE_aggregate(AGE_yearData(d, year, sel))
    IN IF chartData = <<>>
       THEN Node("svg", AGE_NoData, 0, <<>>)
       ELSE Node("svg", "Positive Tests by Age Group", 0,
                 [i \in DOMAIN chartData |->
                     Mark(chartData[i].ageGroup, chartData[i].count, <<>>)])

\* render(): returns at once without data, throws without this.svg
AGE_render(c, dopt, year, sel, hasSvg) ==
    IF dopt = Null THEN [container |-> c, thrown |-> "", cycles |-> 0]
    ELSE IF ~hasSvg THEN [container |-> c, thrown |-> "TypeError", cycles |-> 1]
    ELSE [container |-> ReplaceSvg(c, AGE_svgNode(Get(dopt), year, sel)),
          thrown |-> "", cycles |-> 1]

AGE_LoadData ==
    /\ chart = "AGE" /\ loadState = "idle"
    /\ loadState' = "pending"
    /\ thrown' = "" /\ cycles' = 0
    /\ UNCHANGED <<chart, rawData, data, filterVars, container, svg, tooltip, timerVars, pageVars, geoVars, lifeVars>>

AGE_LoadResolve ==
    /\ chart = "AGE" /\ loadState = "pending"
    /\ \E f \in AGE_Files :
         /\ data' = Some(f)
         /\ selected' = AGE_allAgeGroups(f)
    /\ selectedYear' = Some(2023)
    /\ loadState' = "resolved"
    /\ thrown' = "" /\ cycles' = 0
    /\ UNCHANGED <<chart, rawData, selectedMetric, container, svg, tooltip, timerVars, pageVars, geoVars, lifeVars>>

AGE_LoadReject ==
    /\ chart = "AGE" /\ loadState = "pending"
    /\ loadState' = "rejected"
    /\ thrown' = "LoadError" /\ cycles' = 0
    /\ UNCHANGED <<chart, rawData, data, filterVars, container, svg, tooltip, timerVars, pageVars, geoVars, lifeVars>>

\* init(): createFilters() reads this.data.map and throws while data is null,
\* after the filter container was appended and before this.svg is set
AGE_Init ==
    /\ chart = "AGE" /\ ~svg
    /\ IF data = Null
       THEN /\ container' = <<Node("age-filters", "", 0, <<>>)>>
            /\ thrown' = "TypeError"
            /\ UNCHANGED <<svg, tooltip>>
       ELSE /\ container' =
                 << Node("year-filter", "Select Year", 0,
                         [i \in DOMAIN AGE_years(Get(data)) |->
                             Mark(ToString(AGE_years(Get(data))[i]), AGE_years(Get(data))[i], <<>>)]),
                    Node("age-filters", "Filter by Age Group", 0,
                         [i \in DOMAIN AGE_chips(Get(data)) |->
                             Mark(AGE_chips(Get(data))[i], 0, <<>>)]),
                    Node("svg", "", 0, <<>>) >>
            /\ svg' = TRUE
            /\ tooltip' = Some([visible |-> FALSE, html |-> <<>>])
            /\ thrown' = ""
    /\ cycles' = 0
    /\ UNCHANGED <<chart, loadState, rawData, data, filterVars, timerVars, pageVars, geoVars, lifeVars>>

\* A handler has set the filter fields; then render()
AGE_thenRender ==
    /\ container' = AGE_render(container, data, selectedYear', selected', svg).container
    /\ thrown' = AGE_render(container, data, selectedYear', selected', svg).thrown
    /\ cycles' = AGE_render(container, data, selectedYear', selected', svg).cycles
    /\ UNCHANGED <<chart, loadState, rawData, data, selectedMetric, svg, tooltip, timerVars, pageVars, geoVars, lifeVars>>

\* The page calls render()
AGE_Render ==
    /\ chart = "AGE"
    /\ UNCHANGED <<selectedYear, selected>>
    /\ AGE_thenRender

AGE_Buttons(kind) ==
    LET ns == NodesOf(container, kind)
    IN IF ns = <<>> THEN {} ELSE Range(ns[1].marks)

\* 'click' on a year button
AGE_ClickYear(year) ==
    /\ chart = "AGE" /\ svg
    /\ \E m \in AGE_Buttons("year-filter") : m.value = year
    /\ selectedYear' = Some(year)
    /\ UNCHANGED selected
    /\ AGE_thenRender

AGE_toggle(sel, x) ==
    IF IndexOf(sel, x) > -1
    THEN SelectSeq(sel, LAMBDA y : y # x)
    ELSE Append(sel, x)

\* 'click' on an age chip: toggleAgeGroup(ageGroup)
AGE_toggleAgeGroup(age) ==
    /\ chart = "AGE" /\ svg
    /\ \E m \in AGE_Buttons("age-filters") : m.key = age
    /\ selected' = AGE_toggle(selected, age)
    /\ UNCHANGED selectedYear
    /\ AGE_thenRender

AGE_selectAllAgeGroups ==
    /\ chart = "AGE" /\ svg
    /\ selected' = AGE_allAgeGroups(Get(data))
    /\ UNCHANGED selectedYear
    /\ AGE_thenRender

AGE_clearAllAgeGroups ==
    /\ chart = "AGE" /\ svg
    /\ selected' = <<>>
    /\ UNCHANGED selectedYear
    /\ AGE_thenRender

\* ==================================================== EnforcementOutcomesChart
\* Rows of the enforcement CSV (YEAR, JURISDICTION, Fines, Arrests, Charges)
ENF_Rows ==
    { [YEAR |-> 2023, JURISDICTION |-> "VIC", Fines |-> 2, Arrests |-> 1, Charges |-> 0],
      [YEAR |-> 2023, JURISDICTION |-> "NSW", Fines |-> 1, Arrests |-> 0, Charges |-> 1],
      [YEAR |-> 2024, JURISDICTION |-> "NSW", Fines |-> 1, Arrests |-> 1, Charges |-> 1],
      [YEAR |-> 2022, JURISDICTION |-> "VIC", Fines |-> 3, Arrests |-> 0, Charges |-> 0] }

ENF_Files == SeqsUpTo(ENF_Rows, MaxRows)

\* loadData(): rows summed per year-jurisdiction key, years before 2023 dropped
ENF_aggregated(rows) ==
    LET keys == UniqueInOrder([i \in DOMAIN rows |-> <<rows[i].YEAR, rows[i].JURISDICTION>>])
        of(k) == SelectSeq(rows, LAMBDA r : <<r.YEAR, r.JURISDICTION>> = k)
        entries == [i \in DOMAIN keys |->
            [year         |-> keys[i][1],
             jurisdiction |-> keys[i][2],
             Fines        |-> SumSeq([k \in DOMAIN of(keys[i]) |-> of(keys[i])[k].Fines]),
             arrests      |-> SumSeq([k \in DOMAIN of(keys[i]) |-> of(keys[i])[k].Arrests]),
             Charges      |-> SumSeq([k \in DOMAIN of(keys[i]) |-> of(keys[i])[k].Charges])]]
    IN SelectSeq(entries, LAMBDA e : e.year >= 2023)

ENF_jurisdictionsOf(d) == UniqueInOrder([i \in DOMAIN d |-> d[i].jurisdiction])

\* The three jurisdictions with the largest Fines + arrests + Charges
ENF_top3(d) ==
    LET js == ENF_jurisdictionsOf(d)
        of(j) == SelectSeq(d, LAMBDA r : r.jurisdiction = j)
        total(j) == SumSeq([k \in DOMAIN of(j) |->
                              of(j)[k].Fines + of(j)[k].arrests + of(j)[k].Charges])
        sorted == StableSortDesc(js, [i \in DOMAIN js |-> total(js[i])])
    IN SubSeq(sorted, 1, IF Len(sorted) < 3 THEN Len(sorted) ELSE 3)

ENF_metrics == <<"Fines", "Arrests", "Charges">>

ENF_value(r, metric) ==
    IF metric = "Fines" THEN r.Fines
    ELSE IF metric = "Arrests" THEN r.arrests ELSE r.Charges

ENF_NoData == "Select jurisdictions to view data"

\* chartData of render(): one point per selected jurisdiction and record
ENF_chartData(d, sel, metric) ==
    LET pts(j) == LET jd == SelectSeq(d, LAMBDA r : r.jurisdiction = j)
                  IN [k \in DOMAIN jd |->
                        [year |-> jd[k].year, jurisdiction |-> j,
                         value |-> ENF_value(jd[k], metric)]]
        F[i \in 0..Len(sel)] == IF i = 0 THEN <<>> ELSE F[i - 1] \o pts(sel[i])
    IN F[Len(sel)]

\* The bars: per year ascending, per selected jurisdiction, values above 0
ENF_bars(d, sel, metric) ==
    LET cd == ENF_chartData(d, sel, metric)
        ys == UniqueInOrder([i \in DOMAIN cd |-> cd[i].year])
        years == StableSortAsc(ys, ys)
        bar(y, j) == LET hit == SelectSeq(cd, LAMBDA pt : pt.year = y /\ pt.jurisdiction = j)
                     IN IF hit # <<>> /\ hit[1].value > 0
                        THEN <<Mark(j, hit[1].value, <<y>>)>> ELSE <<>>
        row(y) == LET G[i \in 0..Len(sel)] ==
                         IF i = 0 THEN <<>> ELSE G[i - 1] \o bar(y, sel[i])
                  IN G[Len(sel)]
        H[i \in 0..Len(years)] == IF i = 0 THEN <<>> ELSE H[i - 1] \o row(years[i])
    IN H[Len(years)]

ENF_svgNode(d, sel, metric) ==
    IF Len(sel) = 0
    THEN Node("svg", ENF_NoData, 0, <<>>)
    ELSE Node("svg", metric \o " by Jurisdiction (2023-2024)", 0,
              ENF_bars(d, sel, metric) \o [i \in DOMAIN sel |-> Mark(sel[i], 0, <<>>)])

\* render(): returns at once without data, throws without this.svg
ENF_render(c, dopt, sel, metric, hasSvg) ==
    IF dopt = Null THEN [container |-> c, thrown |-> "", cycles |-> 0]
    ELSE IF ~hasSvg THEN [container |-> c, thrown |-> "TypeError", cycles |-> 1]
    ELSE [container |-> ReplaceSvg(c, ENF_svgNode(Get(dopt), sel, metric)),
          thrown |-> "", cycles |-> 1]

ENF_LoadData ==
    /\ chart = "ENF" /\ loadState = "idle"
    /\ loadState' = "pending"
    /\ thrown' = "" /\ cycles' = 0
    /\ UNCHANGED <<chart, rawData, data, filterVars, container, svg, tooltip, timerVars, pageVars, geoVars, lifeVars>>

ENF_LoadResolve ==
    /\ chart = "ENF" /\ loadState = "pending"
    /\ \E f \in ENF_Files :
         /\ data' = Some(ENF_aggregated(f))
         /\ selected' = ENF_top3(ENF_aggregated(f))
    /\ loadState' = "resolved"
    /\ thrown' = "" /\ cycles' = 0
    /\ UNCHANGED <<chart, rawData, selectedYear, selectedMetric, container, svg,
                   tooltip, timerVars, pageVars, geoVars, lifeVars>>

ENF_LoadReject ==
    /\ chart = "ENF" /\ loadState = "pending"
    /\ loadState' = "rejected"
    /\ thrown' = "LoadError" /\ cycles' = 0
    /\ UNCHANGED <<chart, rawData, data, filterVars, container, svg, tooltip, timerVars, pageVars, geoVars, lifeVars>>

ENF_metricButtons == [i \in 1..3 |-> Mark(ENF_metrics[i], 0, <<>>)]

\* init(): createFilters() appends the metric, Select All and Clear All
\* buttons, then reads this.data.map and throws while data is null, before
\* the chips are appended and before this.svg is set
ENF_Init ==
    /\ chart = "ENF" /\ ~svg
    /\ IF data = Null
       THEN /\ container' = <<Node("enforcement-filters", "", 0, ENF_metricButtons)>>
            /\ thrown' = "TypeError"
            /\ UNCHANGED <<svg, tooltip>>
       ELSE /\ container' =
                 << Node("enforcement-filters", "", 0, ENF_metricButtons),
                    Node("jurisdiction-filters", "Filter by Jurisdiction", 0,
                         [i \in DOMAIN SortCodes(ENF_jurisdictionsOf(Get(data))) |->
                             Mark(SortCodes(ENF_jurisdictionsOf(Get(data)))[i], 0, <<>>)]),
                    Node("svg", "", 0, <<>>) >>
            /\ svg' = TRUE
            /\ tooltip' = Some([visible |-> FALSE, html |-> <<>>])
            /\ thrown' = ""
    /\ cycles' = 0
    /\ UNCHANGED <<chart, loadState, rawData, data, filterVars, timerVars, pageVars, geoVars, lifeVars>>

\* The filter buttons of a second EnforcementOutcomesChart that stands
\* initialised in the same document: its metric 'Fines' highlighted, its
\* jurisdiction buttons NSW and VIC, both selected and highlighted
ENF_Peer == [metric |-> "Fines", buttons |-> {"NSW", "VIC"}, highlighted |-> {"NSW", "VIC"}]

\* updateMetricButtons(): every '.metric-filter-btn' of the document is
\* styled by whether its metric is this.selectedMetric
ENF_updateMetricButtons(pg, metric) ==
    IF pg.peer = Null THEN pg
    ELSE [pg EXCEPT !.peer = Some([Get(pg.peer) EXCEPT !.metric = metric])]

\* updateJurisdictionButtons(): every '.jurisdiction-filter-btn' of the
\* document is styled by whether this.selectedJurisdictions includes it
ENF_updateJurisdictionButtons(pg, sel) ==
    IF pg.peer = Null THEN pg
    ELSE [pg EXCEPT !.peer = Some([Get(pg.peer) EXCEPT
                         !.highlighted = {j \in Get(pg.peer).buttons : j \in Range(sel)}])]

\* A handler has set the filter fields and styled the buttons; then render()
ENF_thenRender ==
    /\ container' = ENF_render(container, data, selected', selectedMetric', svg).container
    /\ thrown' = ENF_render(container, data, selected', selectedMetric', svg).thrown
    /\ cycles' = ENF_render(container, data, selected', selectedMetric', svg).cycles
    /\ UNCHANGED <<chart, loadState, rawData, data, selectedYear, svg, tooltip, timerVars,
                   pointer, geoVars, lifeVars>>

\* The page calls render()
ENF_Render ==
    /\ chart = "ENF"
    /\ UNCHANGED <<selected, selectedMetric, page>>
    /\ ENF_thenRender

\* 'click' on a metric button: selectMetric(metric)
ENF_selectMetric(metric) ==
    /\ chart = "ENF" /\ HasNode(container, "enforcement-filters")
    /\ metric \in Range(ENF_metrics)
    /\ selectedMetric' = metric
    /\ page' = ENF_updateMetricButtons(page, metric)
    /\ UNCHANGED selected
    /\ ENF_thenRender

\* 'click' on a jurisdiction chip: toggleJurisdiction(jurisdiction)
ENF_toggleJurisdiction(j) ==
    /\ chart = "ENF"
    /\ \E m \in AGE_Buttons("jurisdiction-filters") : m.key = j
    /\ selected' = AGE_toggle(selected, j)
    /\ page' = ENF_updateJurisdictionButtons(page, selected')
    /\ UNCHANGED selectedMetric
    /\ ENF_thenRender

\* 'click' on Select All: reads this.data.map, which throws while data is null
ENF_selectAllJurisdictions ==
    /\ chart = "ENF" /\ HasNode(container, "enforcement-filters")
    /\ IF data = Null
       THEN /\ thrown' = "TypeError" /\ cycles' = 0
            /\ UNCHANGED <<chart, loadState, rawData, data, filterVars, container,
                           svg, tooltip, timerVars, pageVars, geoVars, lifeVars>>
       ELSE /\ selected' = SortCodes(ENF_jurisdictionsOf(Get(data)))
            /\ page' = ENF_updateJurisdictionButtons(page, selected')
            /\ UNCHANGED selectedMetric
            /\ ENF_thenRender

ENF_clearAllJurisdictions ==
    /\ chart = "ENF" /\ HasNode(container, "enforcement-filters")
    /\ selected' = <<>>
    /\ page' = ENF_updateJurisdictionButtons(page, selected')
    /\ UNCHANGED selectedMetric
    /\ ENF_thenRender

\* ===================================================== FinesEnforcementHeatMap
\* (AustraliaHeatMap of positive_drug_jurisdiction_chart.js loads its geography
\* and resolves feature names with the same code.)
\* Rows of the enforcement CSV as d3.csv hands them over: every cell a string
MAP_Rows ==
    { [YEAR |-> "2024", JURISDICTION |-> "NSW", FINES |-> "2", ARRESTS |-> "1", CHARGES |-> "0"],
      [YEAR |-> "2024", JURISDICTION |-> "VIC", FINES |-> "1", ARRESTS |-> "",  CHARGES |-> "1"],
      [YEAR |-> "2023", JURISDICTION |-> "NSW", FINES |-> "3", ARRESTS |-> "1", CHARGES |-> "1"],
      [YEAR |-> "2024", JURISDICTION |-> "NSW", FINES |-> "1", ARRESTS |-> "0", CHARGES |-> "0"] }

MAP_Files == SeqsUpTo(MAP_Rows, MaxRows)

\* loadData(): rawData.map(...)
MAP_process(rows) ==
    [i \in DOMAIN rows |->
        [year         |-> ToNumber(rows[i].YEAR),
         jurisdiction |-> rows[i].JURISDICTION,
         fines        |-> CoerceCount(rows[i].FINES),
         arrests      |-> CoerceCount(rows[i].ARRESTS),
         charges      |-> CoerceCount(rows[i].CHARGES)]]

\* d3.max(this.data, d => d.year): undefined for no rows
MAP_maxYear(d) ==
    IF d = <<>> THEN Null
    ELSE Some(CHOOSE y \in Range([i \in DOMAIN d |-> d[i].year]) :
                 \A i \in DOMAIN d : d[i].year <= y)

\* this.stateNameMap, in the order of Object.entries
MAP_stateNameMap ==
    << <<"NSW", "New South Wales">>, <<"VIC", "Victoria">>, <<"QLD", "Queensland">>,
       <<"WA", "Western Australia">>, <<"SA", "South Australia">>, <<"TAS", "Tasmania">>,
       <<"NT", "Northern Territory">>, <<"ACT", "Australian Capital Territory">> >>

\* What response.json() can resolve to: the feature names of a GeoJSON
\* document (properties.STATE_NAME || properties.name), or a JSON document
\* that has no features member
MAP_StatesGeoJSON == [features |-> Some(<<"New South Wales", "Victoria">>)]

MAP_CodesGeoJSON == [features |-> Some(<<"NSW", "New South Wales">>)]

MAP_ErrorDocument == [features |-> Null]

\* Outcomes of fetch(url) followed by response.json(): fetch rejects (no
\* network), or resolves with any HTTP status; json() rejects on a body that
\* is not JSON (json = Null) and resolves with the document otherwise
MAP_Responses ==
    { [fetch |-> "rejects", status |-> 0,   json |-> Null],
      [fetch |-> "resolves", status |-> 200, json |-> Some(MAP_StatesGeoJSON)],
      [fetch |-> "resolves", status |-> 200, json |-> Some(MAP_CodesGeoJSON)],
      [fetch |-> "resolves", status |-> 404, json |-> Null],
      [fetch |-> "resolves", status |-> 503, json |-> Some(MAP_ErrorDocument)] }

MAP_createFallbackGeoJSON == [features |-> Some(<<"Australia">>)]

\* loadGeoJSON(): the document of the response, the fallback when fetch or
\* json() rejects; the status of the response is not looked at
MAP_loadGeoJSON(resp) ==
    IF resp.fetch = "rejects" \/ resp.json = Null
    THEN MAP_createFallbackGeoJSON
    ELSE Get(resp.json)

UpperCaseOf ==
    [c \in {"a", "b", "c", "d", "e", "f", "g", "h", "i", "j", "k", "l", "m", "n", "o",
            "p", "q", "r", "s", "t", "u", "v", "w", "x", "y", "z"} |->
       CASE c = "a" -> "A" [] c = "b" -> "B" [] c = "c" -> "C" [] c = "d" -> "D"
         [] c = "e" -> "E" [] c = "f" -> "F" [] c = "g" -> "G" [] c = "h" -> "H"
         [] c = "i" -> "I" [] c = "j" -> "J" [] c = "k" -> "K" [] c = "l" -> "L"
         [] c = "m" -> "M" [] c = "n" -> "N" [] c = "o" -> "O" [] c = "p" -> "P"
         [] c = "q" -> "Q" [] c = "r" -> "R" [] c = "s" -> "S" [] c = "t" -> "T"
         [] c = "u" -> "U" [] c = "v" -> "V" [] c = "w" -> "W" [] c = "x" -> "X"
         [] c = "y" -> "Y" [] c = "z" -> "Z"]

\* String.prototype.toUpperCase
RECURSIVE toUpperCase(_)
toUpperCase(s) ==
    IF Len(s) = 0 THEN ""
    ELSE LET c == SubSeq(s, 1, 1)
         IN (IF c \in DOMAIN UpperCaseOf THEN UpperCaseOf[c] ELSE c)
            \o toUpperCase(SubSeq(s, 2, Len(s)))

\* String.prototype.includes
includes(s, sub) ==
    \E i \in 1..(Len(s) - Len(sub) + 1) : SubSeq(s, i, i + Len(sub) - 1) = sub

\* A name resolver that knows the full names of stateNameMap only
MAP_getStateCodeExact(fullName) ==
    IF \E i \in DOMAIN MAP_stateNameMap : MAP_stateNameMap[i][2] = fullName
    THEN Some(MAP_stateNameMap[CHOOSE i \in DOMAIN MAP_stateNameMap :
                                  MAP_stateNameMap[i][2] = fullName][1])
    ELSE Null

\* getStateCode(fullName): the code, or null (Null)
MAP_getStateCode(fullName) ==
    LET upperName == toUpperCase(fullName)
        has(a, b) == includes(upperName, a) \/ includes(upperName, b)
    IN IF \E i \in DOMAIN MAP_stateNameMap : MAP_stateNameMap[i][2] = fullName
       THEN Some(MAP_stateNameMap[CHOOSE i \in DOMAIN MAP_stateNameMap :
                                     MAP_stateNameMap[i][2] = fullName][1])
       ELSE IF has("NEW SOUTH WALES", "NSW") THEN Some("NSW")
       ELSE IF has("VICTORIA", "VIC") THEN Some("VIC")
       ELSE IF has("QUEENSLAND", "QLD") THEN Some("QLD")
       ELSE IF has("WESTERN AUSTRALIA", "WA") THEN Some("WA")
       ELSE IF has("SOUTH AUSTRALIA", "SA") THEN Some("SA")
       ELSE IF has("TASMANIA", "TAS") THEN Some("TAS")
       ELSE IF has("NORTHERN TERRITORY", "NT") THEN Some("NT")
       ELSE IF has("CAPITAL TERRITORY", "ACT") THEN Some("ACT")
       ELSE Null

MAP_metrics == <<"FINES", "ARRESTS", "CHARGES">>

MAP_getMetricValue(r, metric) ==
    IF metric = "FINES" THEN r.fines
    ELSE IF metric = "ARRESTS" THEN r.arrests
    ELSE IF metric = "CHARGES" THEN r.charges ELSE 0

MAP_yearData(d, year) == SelectSeq(d, LAMBDA r : Some(r.year) = year)

\* dataByState[key]: the last record of yearData written under key, where
\* a record is written under its jurisdiction code and, for a code of
\* stateNameMap, under the full name too; undefined (Null) for no record
MAP_dataByState(yd, key) ==
    LET keysOf(r) ==
            {r.jurisdiction} \cup
            {MAP_stateNameMap[i][2] : i \in {k \in DOMAIN MAP_stateNameMap :
                                               MAP_stateNameMap[k][1] = r.jurisdiction}}
        hits == {i \in DOMAIN yd : key \in keysOf(yd[i])}
    IN IF hits = {} THEN Null
       ELSE Some(yd[CHOOSE i \in hits : \A k \in hits : k <= i])

\* dataByState[stateName] || dataByState[this.getStateCode(stateName)]
MAP_featureData(yd, stateName) ==
    IF MAP_dataByState(yd, stateName) # Null THEN MAP_dataByState(yd, stateName)
    ELSE IF MAP_getStateCode(stateName) = Null THEN MAP_dataByState(yd, "null")
    ELSE MAP_dataByState(yd, Get(MAP_getStateCode(stateName)))

\* The fill of a feature of the heat layer: colorScale(value) of its record
\* (Some(value)), '#f8fafc' without one (Null)
MAP_fill(yd, stateName, metric) ==
    IF MAP_featureData(yd, stateName) = Null THEN Null
    ELSE Some(MAP_getMetricValue(Get(MAP_featureData(yd, stateName)), metric))

\* The shapes of render(): the base layer, the heat layer, then the label
\* (the state code and the value) of every feature that has a record
MAP_paths(yd, features, metric) ==
    LET withData == SelectSeq(features, LAMBDA n : MAP_featureData(yd, n) # Null)
    IN [i \in DOMAIN features |-> Mark(features[i], Null, <<"base">>)] \o
       [i \in DOMAIN features |->
           Mark(features[i], MAP_fill(yd, features[i], metric), <<"heat">>)] \o
       [i \in DOMAIN withData |->
           Mark(withData[i], MAP_fill(yd, withData[i], metric),
                <<"label", IF MAP_getStateCode(withData[i]) = Null THEN ""
                           ELSE Get(MAP_getStateCode(withData[i]))>>)]

\* render(): returns at once without data or geography; throws without
\* this.svg; the message for a year without records; throws on a geography
\* document without features, the title being drawn already
MAP_render(c, dopt, gopt, year, metric, hasSvg) ==
    IF dopt = Null \/ gopt = Null THEN [container |-> c, thrown |-> "", cycles |-> 0]
    ELSE IF ~hasSvg THEN [container |-> c, thrown |-> "TypeError", cycles |-> 1]
    ELSE IF MAP_yearData(Get(dopt), year) = <<>>
    THEN [container |-> ReplaceSvg(c, Node("svg", "No data available", 0, <<>>)),
          thrown |-> "", cycles |-> 1]
    ELSE IF Get(gopt).features = Null
    THEN [container |-> ReplaceSvg(c, Node("svg", metric, Get(year), <<>>)),
          thrown |-> "TypeError", cycles |-> 1]
    ELSE [container |-> ReplaceSvg(c, Node("svg", metric, Get(year),
                           MAP_paths(MAP_yearData(Get(dopt), year),
                                     Get(Get(gopt).features), metric))),
          thrown |-> "", cycles |-> 1]

MAP_LoadData ==
    /\ chart = "MAP" /\ loadState = "idle"
    /\ loadState' = "pending"
    /\ thrown' = "" /\ cycles' = 0
    /\ UNCHANGED <<chart, rawData, data, filterVars, container, svg, tooltip, timerVars,
                   pageVars, geoVars, lifeVars>>

\* A loadGeoJSON() without the catch block: a failed fetch fails the load
MAP_LoadResolveNoFallback(f, resp) ==
    /\ chart = "MAP" /\ loadState = "pending"
    /\ data' = Some(MAP_process(f))
    /\ selectedYear' = MAP_maxYear(MAP_process(f))
    /\ geoResponse' = Some(resp)
    /\ IF resp.fetch = "rejects" \/ resp.json = Null
       THEN geoData' = geoData /\ loadState' = "rejected" /\ thrown' = "LoadError"
       ELSE geoData' = resp.json /\ loadState' = "resolved" /\ thrown' = ""
    /\ cycles' = 0
    /\ UNCHANGED <<chart, rawData, selected, selectedMetric, container, svg, tooltip,
                   timerVars, pageVars, lifeVars>>

\* The CSV arrives: the records, the default year, then loadGeoJSON()
MAP_LoadResolve(f, resp) ==
    /\ chart = "MAP" /\ loadState = "pending"
    /\ data' = Some(MAP_process(f))
    /\ selectedYear' = MAP_maxYear(MAP_process(f))
    /\ geoResponse' = Some(resp)
    /\ geoData' = Some(MAP_loadGeoJSON(resp))
    /\ loadState' = "resolved"
    /\ thrown' = "" /\ cycles' = 0
    /\ UNCHANGED <<chart, rawData, selected, selectedMetric, container, svg, tooltip,
                   timerVars, pageVars, lifeVars>>

\* d3.csv rejects: loadData() logs and rethrows
MAP_LoadReject ==
    /\ chart = "MAP" /\ loadState = "pending"
    /\ loadState' = "rejected"
    /\ thrown' = "LoadError" /\ cycles' = 0
    /\ UNCHANGED <<chart, rawData, data, filterVars, container, svg, tooltip, timerVars,
                   pageVars, geoVars, lifeVars>>

\* init(): createControls() reads this.data.map and throws while data is
\* null, after the controls container and before the slider, the metric
\* buttons and this.svg
MAP_Init ==
    /\ chart = "MAP" /\ ~svg
    /\ IF data = Null
       THEN /\ container' = <<Node("fines-heatmap-container", "", 0, <<>>)>>
            /\ thrown' = "TypeError"
            /\ UNCHANGED <<svg, tooltip>>
       ELSE /\ container' =
                 << Node("map-controls", "", 0,
                         [i \in 1..3 |-> Mark(MAP_metrics[i], Null, <<"button">>)]),
                    Node("svg", "", 0, <<>>) >>
            /\ svg' = TRUE
            /\ tooltip' = Some([visible |-> FALSE, html |-> <<>>])
            /\ thrown' = ""
    /\ cycles' = 0
    /\ UNCHANGED <<chart, loadState, rawData, data, filterVars, timerVars, pageVars, geoVars, lifeVars>>

\* A handler has set the filter fields; then render()
MAP_thenRender ==
    /\ container' = MAP_render(container, data, geoData, selectedYear', selectedMetric', svg).container
    /\ thrown' = MAP_render(container, data, geoData, selectedYear', selectedMetric', svg).thrown
    /\ cycles' = MAP_render(container, data, geoData, selectedYear', selectedMetric', svg).cycles
    /\ UNCHANGED <<chart, loadState, rawData, data, selected, svg, tooltip, timerVars,
                   pageVars, geoVars, lifeVars>>

\* The page calls render()
MAP_Render ==
    /\ chart = "MAP"
    /\ UNCHANGED <<selectedYear, selectedMetric>>
    /\ MAP_thenRender

\* 'input' on the year slider
MAP_SliderInput(year) ==
    /\ chart = "MAP" /\ HasNode(container, "map-controls")
    /\ \E i \in DOMAIN Get(data) : Get(data)[i].year = year
    /\ selectedYear' = Some(year)
    /\ UNCHANGED selectedMetric
    /\ MAP_thenRender

\* 'click' on a metric button
MAP_ClickMetric(metric) ==
    /\ chart = "MAP" /\ HasNode(container, "map-controls")
    /\ selectedMetric' = metric
    /\ UNCHANGED selectedYear
    /\ MAP_thenRender

\* ============================================================ PositiveDrugChart
\* Rows of the positive-tests CSV (YEAR, Sum(COUNT)), every cell a string
PDC_Rows ==
    { [YEAR |-> "2023", COUNT |-> "0"],
      [YEAR |-> "2024", COUNT |-> "2"],
      [YEAR |-> "2023", COUNT |-> "1"],
      [YEAR |-> "2024", COUNT |-> "0"],
      [YEAR |-> "2024", COUNT |-> "n/a"] }

PDC_Files == SeqsUpTo(PDC_Rows, MaxRows)

\* A count field as loadData() leaves it: {n} for the number n, {} for NaN
NaN == {}

\* Unary plus on a cell: the number of a numeral, 0 for a blank cell, NaN
\* for any other text
PDC_toNumber(cell) ==
    IF \E n \in CellNumbers : ToString(n) = cell
    THEN {CHOOSE n \in CellNumbers : ToString(n) = cell}
    ELSE IF cell = "" THEN {0} ELSE NaN

\* Number.prototype.toLocaleString of a count
PDC_toLocaleString(count) == IF count = NaN THEN "NaN" ELSE ToString(Get(count))

\* A load that keeps the records in file order
PDC_processUnsorted(rows) ==
    [i \in DOMAIN rows |->
        [year |-> ToNumber(rows[i].YEAR), count |-> PDC_toNumber(rows[i].COUNT)]]

\* loadData(): rawData.map(...).sort((a, b) => a.year - b.year)
PDC_process(rows) ==
    LET recs == [i \in DOMAIN rows |->
                    [year |-> ToNumber(rows[i].YEAR), count |-> PDC_toNumber(rows[i].COUNT)]]
    IN StableSortAsc(recs, [i \in DOMAIN recs |-> recs[i].year])

\* calculatePercentChange(year) followed by the formatting of showTooltip:
\* "" for null (no record before the first of that year), else the sign and
\* toFixed(1) of ((current - previous) / previous) * 100
PDC_changeText(d, year) ==
    LET currentIndex == CHOOSE i \in DOMAIN d :
                            d[i].year = year /\ \A k \in 1..(i - 1) : d[k].year # year
    IN IF currentIndex = 1 THEN ""
       ELSE IF d[currentIndex].count = NaN \/ d[currentIndex - 1].count = NaN THEN "NaN%"
       ELSE LET current == Get(d[currentIndex].count)
                previous == Get(d[currentIndex - 1].count)
            IN IF previous = 0
               THEN IF current = 0 THEN "NaN%" ELSE "+Infinity%"
               ELSE IF current >= previous
               THEN (IF current > previous THEN "+" ELSE "")
                    \o PercentFixed1(current - previous, previous) \o "%"
               ELSE "-" \o PercentFixed1(previous - current, previous) \o "%"

PDC_tooltipContent(d, dot) ==
    <<ToString(dot.key), PDC_toLocaleString(dot.value), PDC_changeText(d, dot.key)>>

PDC_Title == "Overall Positive Drug Tests Trend (All Jurisdictions)"

\* render(): returns at once without data; throws without this.svg; for no
\* records addAnnotations() throws on reduce() of an empty array, the title
\* standing already; else the line and one dot per record, in data order,
\* after which addStatistics() throws when no count is a number (d3.max is
\* undefined and find() has no record for it)
PDC_render(c, dopt, hasSvg) ==
    IF dopt = Null THEN [container |-> c, thrown |-> "", cycles |-> 0]
    ELSE IF ~hasSvg THEN [container |-> c, thrown |-> "TypeError", cycles |-> 1]
    ELSE IF Get(dopt) = <<>>
    THEN [container |-> ReplaceSvg(c, Node("svg", PDC_Title, 0, <<>>)),
          thrown |-> "TypeError", cycles |-> 1]
    ELSE [container |-> ReplaceSvg(c, Node("svg", PDC_Title, 0,
                           [i \in DOMAIN Get(dopt) |->
                               Mark(Get(dopt)[i].year, Get(dopt)[i].count, <<>>)])),
          thrown |-> IF \A i \in DOMAIN Get(dopt) : Get(dopt)[i].count = NaN
                     THEN "TypeError" ELSE "",
          cycles |-> 1]

\* Pointer positions (event.pageX) of the mouse events
Pointer == {100, 200}

\* style('left') of showTooltip / moveTooltip: event.pageX + 10 in LineChart,
\* event.pageX + 15 in PositiveDrugChart
TooltipLeft(pageX) == IF chart = "LIN" THEN pageX + 10 ELSE pageX + 15

PDC_LoadData ==
    /\ chart = "PDC" /\ loadState = "idle"
    /\ loadState' = "pending"
    /\ thrown' = "" /\ cycles' = 0
    /\ UNCHANGED <<chart, rawData, data, filterVars, container, svg, tooltip, timerVars,
                   pageVars, geoVars, lifeVars>>

PDC_LoadResolve ==
    /\ chart = "PDC" /\ loadState = "pending"
    /\ \E f \in PDC_Files : data' = Some(PDC_process(f))
    /\ loadState' = "resolved"
    /\ thrown' = "" /\ cycles' = 0
    /\ UNCHANGED <<chart, rawData, filterVars, container, svg, tooltip, timerVars,
                   pageVars, geoVars, lifeVars>>

PDC_LoadReject ==
    /\ chart = "PDC" /\ loadState = "pending"
    /\ loadState' = "rejected"
    /\ thrown' = "LoadError" /\ cycles' = 0
    /\ UNCHANGED <<chart, rawData, data, filterVars, container, svg, tooltip, timerVars,
                   pageVars, geoVars, lifeVars>>

\* init(): the svg and the tooltip element
PDC_Init ==
    /\ chart = "PDC" /\ ~svg
    /\ container' = <<Node("svg", "", 0, <<>>)>>
    /\ svg' = TRUE
    /\ tooltip' = Some([visible |-> FALSE, html |-> <<>>, left |-> 0])
    /\ thrown' = "" /\ cycles' = 0
    /\ UNCHANGED <<chart, loadState, rawData, data, filterVars, timerVars, pageVars, geoVars, lifeVars>>

\* The page calls render()
PDC_Render ==
    /\ chart = "PDC"
    /\ container' = PDC_render(container, data, svg).container
    /\ thrown' = PDC_render(container, data, svg).thrown
    /\ cycles' = PDC_render(container, data, svg).cycles
    /\ UNCHANGED <<chart, loadState, rawData, data, filterVars, svg, tooltip, timerVars,
                   pageVars, geoVars, lifeVars>>

\* The dots of the svg the container currently shows
PDC_Dots ==
    LET ss == NodesOf(container, "svg")
    IN IF ss = <<>> THEN <<>> ELSE ss[1].marks

\* 'mouseover' on a dot: showTooltip(event, d), which ends in moveTooltip
PDC_MouseOver(i, pageX) ==
    /\ chart = "PDC" /\ i \in DOMAIN PDC_Dots
    /\ pointer = Null /\ pointer' = Some(pageX)
    /\ tooltip' = Some([visible |-> TRUE,
                        html |-> PDC_tooltipContent(Get(data), PDC_Dots[i]),
                        left |-> TooltipLeft(pageX)])
    /\ thrown' = "" /\ cycles' = 0
    /\ UNCHANGED <<chart, loadState, rawData, data, filterVars, container, svg, timerVars,
                   page, geoVars, lifeVars>>

\* 'mousemove' on a dot: moveTooltip(event)
PDC_MouseMove(pageX) ==
    /\ chart = "PDC" /\ PDC_Dots # <<>>
    /\ pointer # Null /\ pointer' = Some(pageX)
    /\ tooltip' = Some([Get(tooltip) EXCEPT !.left = TooltipLeft(pageX)])
    /\ thrown' = "" /\ cycles' = 0
    /\ UNCHANGED <<chart, loadState, rawData, data, filterVars, container, svg, timerVars,
                   page, geoVars, lifeVars>>

\* 'mouseout' on a dot: hideTooltip()
PDC_MouseOut ==
    /\ chart = "PDC" /\ PDC_Dots # <<>>
    /\ pointer # Null /\ pointer' = Null
    /\ tooltip' = Some([Get(tooltip) EXCEPT !.visible = FALSE])
    /\ thrown' = "" /\ cycles' = 0
    /\ UNCHANGED <<chart, loadState, rawData, data, filterVars, container, svg, timerVars,
                   page, geoVars, lifeVars>>

\* ==================================================================== LineChart
\* Records a page hands to render(data) (xField 'year', yField 'value')
LIN_Rows ==
    { [year |-> 2023, value |-> 1],
      [year |-> 2024, value |-> 2],
      [year |-> 2023, value |-> 3] }

LIN_Inputs == SeqsUpTo(LIN_Rows, MaxRows)

\* The dots of the svg the container currently shows
LIN_Dots ==
    LET ss == NodesOf(container, "svg")
    IN IF ss = <<>> THEN <<>> ELSE ss[1].marks

\* init(): the svg with the title, and the tooltip element
LIN_Init ==
    /\ chart = "LIN" /\ ~svg
    /\ container' = <<Node("svg", "Line Chart", 0, <<>>)>>
    /\ svg' = TRUE
    /\ tooltip' = Some([visible |-> FALSE, html |-> <<>>, left |-> 0])
    /\ thrown' = "" /\ cycles' = 0
    /\ UNCHANGED <<chart, loadState, rawData, data, filterVars, timerVars, pageVars, geoVars, lifeVars>>

\* render(data) / update(newData): keeps the data, then appends the line
\* and one dot per record, in the order of the array, to what the svg holds
\* already; throws on this.svg while init() has not run
LIN_Render(d) ==
    /\ chart = "LIN"
    /\ Len(LIN_Dots) + Len(d) <= MaxDots
    /\ data' = Some(d)
    /\ IF ~svg
       THEN thrown' = "TypeError" /\ UNCHANGED container
       ELSE /\ container' = ReplaceSvg(container,
                               Node("svg", "Line Chart", 0,
                                    LIN_Dots \o [i \in DOMAIN d |->
                                                    Mark(d[i].year, d[i].value, <<>>)]))
            /\ thrown' = ""
    /\ cycles' = 1
    /\ UNCHANGED <<chart, loadState, rawData, filterVars, svg, tooltip, timerVars,
                   pageVars, geoVars, lifeVars>>

\* 'mouseover' on a dot: showTooltip(event, d, key)
LIN_MouseOver(i, pageX) ==
    /\ chart = "LIN" /\ i \in DOMAIN LIN_Dots
    /\ pointer = Null /\ pointer' = Some(pageX)
    /\ tooltip' = Some([visible |-> TRUE,
                        html |-> <<"data", ToString(LIN_Dots[i].key),
                                   ToString(LIN_Dots[i].value)>>,
                        left |-> TooltipLeft(pageX)])
    /\ thrown' = "" /\ cycles' = 0
    /\ UNCHANGED <<chart, loadState, rawData, data, filterVars, container, svg, timerVars,
                   page, geoVars, lifeVars>>

\* The pointer moves over a dot: the dots have no 'mousemove' listener
LIN_MouseMove(pageX) ==
    /\ chart = "LIN" /\ LIN_Dots # <<>>
    /\ pointer # Null /\ pointer' = Some(pageX)
    /\ thrown' = "" /\ cycles' = 0
    /\ UNCHANGED <<chart, loadState, rawData, data, filterVars, container, svg, tooltip,
                   timerVars, page, geoVars, lifeVars>>

\* 'mouseout' on a dot: hideTooltip()
LIN_MouseOut ==
    /\ chart = "LIN" /\ LIN_Dots # <<>>
    /\ pointer # Null /\ pointer' = Null
    /\ tooltip' = Some([Get(tooltip) EXCEPT !.visible = FALSE])
    /\ thrown' = "" /\ cycles' = 0
    /\ UNCHANGED <<chart, loadState, rawData, data, filterVars, container, svg, timerVars,
                   page, geoVars, lifeVars>>

\* ================================================================== DataLoader
\* The global dataLoader, called for one file path and sheet name
MaxCalls == 2

\* What sheet_to_json can make of the file
DL_Sheets == {<<>>, TSR_Example}

\* The calls in flight: cur were made since the last clearCache(), old
\* before it
DL_pending == inflight.cur + inflight.old

DL_unchanged ==
    UNCHANGED <<chart, loadState, rawData, filterVars, container, svg, tooltip, cycles,
                timerVars, pageVars, geoVars, destroyed>>

\* loadExcel(filePath, sheetName) up to its first await: a cached entry is
\* returned; else fetch(filePath) is begun
DL_loadExcel ==
    /\ chart = "DL" /\ DL_pending < MaxCalls
    /\ IF cache # Null
       THEN /\ data' = cache
            /\ UNCHANGED <<inflight, fetches>>
       ELSE /\ inflight' = [inflight EXCEPT !.cur = @ + 1]
            /\ fetches' = fetches + 1
            /\ UNCHANGED data
    /\ thrown' = ""
    /\ UNCHANGED <<cache, response>>
    /\ DL_unchanged

\* The fetch of a call comes back and the sheet is read: the rows are
\* stored in the cache and returned
DL_LoadResolve(epoch, f) ==
    /\ chart = "DL" /\ inflight[epoch] > 0
    /\ inflight' = [inflight EXCEPT ![epoch] = @ - 1]
    /\ response' = Some(Workbook)
    /\ cache' = Some(f)
    /\ data' = Some(f)
    /\ thrown' = ""
    /\ UNCHANGED fetches
    /\ DL_unchanged

\* The fetch is rejected, the response is not ok or XLSX.read throws: the
\* error is logged and thrown again, the cache stays as it is
DL_LoadReject(epoch, resp) ==
    /\ chart = "DL" /\ inflight[epoch] > 0
    /\ resp.fetch = "rejects" \/ ~resp.ok \/ resp.body = "html"
    /\ inflight' = [inflight EXCEPT ![epoch] = @ - 1]
    /\ response' = Some(resp)
    /\ fetches' = IF epoch = "cur" THEN fetches - 1 ELSE fetches
    /\ thrown' = "LoadError"
    /\ UNCHANGED <<cache, data>>
    /\ DL_unchanged

\* clearCache()
DL_clearCache ==
    /\ chart = "DL" /\ (cache # Null \/ fetches > 0)
    /\ cache' = Null
    /\ inflight' = [cur |-> 0, old |-> inflight.old + inflight.cur]
    /\ fetches' = 0
    /\ thrown' = ""
    /\ UNCHANGED <<data, response>>
    /\ DL_unchanged

\* ==================================================================== claims
Loaded == loadState = "resolved"

\* The page calls render() again, nothing else having changed
RenderCall == TSR_Render \/ DES_Render \/ DTB_Render \/ AGE_Render \/ ENF_Render

\* The nodes of container c that hold the drawing: the svg, or the
\* placeholder of the chart wrapper
Drawing(c) ==
    SelectSeq(c, LAMBDA n : n.kind = "svg" \/ n.kind = "placeholder")

\* this.svg s is set; for the offence chart, its filter card stands in
\* container c
InitialisedIn(s, c) ==
    IF chart = "OFF" THEN HasNode(c, "jurisdiction-filter-card") ELSE s

Initialised == InitialisedIn(svg, container)

\* C1: render is idempotent for every chart class: a render() call that
\* follows a render of the same series leaves the container holding exactly
\* the elements one render produces (nothing is added by the repetition).
C1_RenderIdempotent ==
    [][(cycles = 1 /\ thrown = "" /\ RenderCall) => container' = container]_vars

\* A handler of a dropdown change, chip toggle, Select All, Clear All or
\* Clear Filter that changes the Filter State
FilterMutation ==
    /\ \/ \E v \in {"all", "2023", "2024"} : TSR_ChangeYear(v)
       \/ TSR_ClearFilter
       \/ OFF_SelectAll
       \/ OFF_ClearAll
       \/ \E j \in Range(CodeOrder) : OFF_ChipClick(j)
       \/ \E age \in Range(AGE_order) : AGE_toggleAgeGroup(age)
       \/ AGE_selectAllAgeGroups
       \/ AGE_clearAllAgeGroups
       \/ \E j \in Range(CodeOrder) : ENF_toggleJurisdiction(j)
       \/ ENF_selectAllJurisdictions
       \/ ENF_clearAllJurisdictions
    /\ filterVars' # filterVars

\* The drawing in container c is the one of Filter State (y, sel, m) over d
ShowsSeries(c, d, y, sel, m, w) ==
    CASE chart = "TSR" -> Drawing(c) = <<TSR_svgNode(d, y, w)>>
      [] chart = "OFF" -> Drawing(c) = <<OFF_renderChart(Get(d), sel)>>
      [] chart = "AGE" -> Drawing(c) = <<AGE_svgNode(Get(d), y, sel)>>
      [] chart = "ENF" -> Drawing(c) = <<ENF_svgNode(Get(d), sel, m)>>
      [] OTHER -> TRUE

SelectedRecords ==
    CASE chart = "TSR" -> TSR_filtered(Get(data), selectedYear)
      [] chart = "DES" -> Get(data)
      [] chart = "OFF" -> OFF_filtered(Get(data), selected)
      [] chart = "AGE" -> AGE_yearData(Get(data), selectedYear, selected)
      [] chart = "ENF" -> ENF_chartData(Get(data), selected, selectedMetric)
      [] OTHER -> <<0>>

Placeholders == {TSR_NoData, OFF_NoData, AGE_NoData, ENF_NoData}

PlaceholderShown ==
    /\ Len(Drawing(container)) = 1
    /\ Drawing(container)[1].marks = <<>>
    /\ Drawing(container)[1].text \in Placeholders

\* C3: when the Filter State selects zero matching records, the render that
\* follows draws the no-data placeholder, exits early and does not throw.
C3_EmptySelectionPlaceholder ==
    (Loaded /\ Initialised /\ cycles = 1 /\ SelectedRecords = <<>>)
        => (thrown = "" /\ PlaceholderShown)

\* Every percentage string the page shows: panel shares and tooltip shares
ShownPercentages ==
    UNION {{m.key : m \in Range(container[i].marks)} :
              i \in {n \in DOMAIN container : container[n].kind = "insight"}}
    \cup (IF chart = "TSR" /\ tooltip # Null THEN Range(Get(tooltip).html) ELSE {})

\* C4: every percentage-of-total a chart shows is a number; with a total of
\* 0 it is 0, never NaN or Infinity.
C4_PercentageNeverNaN ==
    ShownPercentages \cap {"NaN", "Infinity"} = {}

RECURSIVE SumValues(_)
SumValues(marks) ==
    IF marks = <<>> THEN 0 ELSE Head(marks).value + SumValues(Tail(marks))

\* Flat sum of the value field over the records the Filter State selects
FlatSum ==
    CASE chart = "TSR" -> SumSeq([i \in DOMAIN SelectedRecords |-> SelectedRecords[i].count])
      [] chart = "OFF" -> SumSeq([i \in DOMAIN SelectedRecords |-> SelectedRecords[i].FINES])
      [] chart = "AGE" -> SumSeq([i \in DOMAIN SelectedRecords |-> SelectedRecords[i].count])
      [] OTHER -> 0

\* C5: the values of the drawn series add up to the flat sum of the value
\* field over the records passing the filter: aggregation neither drops
\* nor double-counts a record.
C5_SeriesSumIsFlatSum ==
    (chart \in {"TSR", "OFF", "AGE"} /\ Loaded /\ cycles = 1 /\ thrown = ""
       /\ Drawing(container) # <<>>)
        => SumValues(Drawing(container)[1].marks) = FlatSum

\* The bars of the drawing in container c, as (category, value) pairs
BarPairs(c) == {<<m.key, m.value>> : m \in Range(Drawing(c)[1].marks)}

NoDuplicateBars(c) == Len(Drawing(c)[1].marks) = Cardinality(BarPairs(c))

CountSum(rows) == SumSeq([i \in DOMAIN rows |-> rows[i].count])

\* Per jurisdiction, the sum of count over every loaded record
TSR_WholeSet(d) ==
    {<<j, CountSum(SelectSeq(d, LAMBDA r : r.jurisdiction = j))>> :
        j \in {d[i].jurisdiction : i \in DOMAIN d}}

\* Per age group, the sum of count over every loaded record
AGE_WholeSet(d) ==
    {<<g, CountSum(SelectSeq(d, LAMBDA r : r.ageGroup = g))>> :
        g \in {d[i].ageGroup : i \in DOMAIN d}}

\* Per offered age chip, the sum of count over the records of one year
AGE_YearSet(d, year) ==
    {<<g, CountSum(SelectSeq(d, LAMBDA r : r.ageGroup = g /\ Some(r.year) = year))>> :
        g \in {d[i].ageGroup : i \in {k \in DOMAIN d :
                  Some(d[k].year) = year /\ ~AGE_isSentinel(d[k].ageGroup)}}}

\* Every loaded record whose value of metric m is above 0, as a bar
ENF_WholeSet(d, m) ==
    {Mark(d[i].jurisdiction, ENF_value(d[i], m), <<d[i].year>>) :
        i \in {k \in DOMAIN d : ENF_value(d[k], m) > 0}}

ENF_BarSet(c) == {b \in Range(Drawing(c)[1].marks) : b.detail # <<>>}

AllYearsStep == TSR_ChangeYear("all") \/ TSR_ClearFilter

FirstAppearance(keys, key) == IndexOf(keys, key)

TSR_Ranked ==
    LET bars == Drawing(container)[1].marks
        src == TSR_filtered(Get(data), selectedYear)
        keys == [i \in DOMAIN src |-> src[i].jurisdiction]
    IN /\ \A i, j \in DOMAIN bars : i < j =>
              \/ bars[i].value > bars[j].value
              \/ /\ bars[i].value = bars[j].value
                 /\ FirstAppearance(keys, bars[i].key) < FirstAppearance(keys, bars[j].key)
       /\ bars = TSR_svgNode(data, selectedYear, clientWidth).marks

DES_Ranked ==
    LET d == Get(data)
        src == IF selectedYear = "both" THEN Get(rawData)
               ELSE SelectSeq(Get(rawData), LAMBDA r : r.year = ToNumber(selectedYear))
        keys == [i \in DOMAIN src |-> src[i].jurisdiction]
        total(r) == r.positiveTests + r.charges
        tied(rows, v) == SelectSeq(rows, LAMBDA r : total(r) = v)
    IN /\ \A i, j \in DOMAIN d : i < j => total(d[i]) >= total(d[j])
       /\ IF selectedYear = "both"
          THEN \A i, j \in DOMAIN d : (i < j /\ total(d[i]) = total(d[j])) =>
                   FirstAppearance(keys, d[i].jurisdiction)
                       < FirstAppearance(keys, d[j].jurisdiction)
          ELSE \A i \in DOMAIN d : tied(d, total(d[i])) = tied(src, total(d[i]))
       /\ d = DES_processData(Get(rawData), selectedYear)

C8_ResizeDebounced ==
    [][/\ ((\E w \in Widths : TSR_Resize(w)) /\ listening)
            => (Cardinality(timers') = 1 /\ cycles' = 0 /\ container' = container)
       /\ ((\E id \in 1..MaxTimers : TSR_TimerFire(id)) /\ data # Null)
            => /\ timers' = {} /\ cycles' = 1
               /\ Drawing(container')[1].width
                     = TSR_getResponsiveDimensions(clientWidth).width
      ]_vars

\* A burst of two resize events has ended in one render at the last width
C8_Witness ==
    /\ chart = "TSR" /\ listening /\ data # Null
    /\ burst >= 2 /\ timers = {} /\ cycles = 1
    /\ Drawing(container)[1].width = TSR_getResponsiveDimensions(clientWidth).width

\* What the most recent render request alone leaves in the container
AloneOutput(c, d, y, sel, m, w) ==
    CASE chart = "DES" -> c = DES_render(DES_initContainer("both"), Get(d), y, TRUE).container
      [] chart = "DTB" -> c = DTB_render(DTB_initContainer, Get(d), TRUE).container
      [] OTHER -> ShowsSeries(c, d, y, sel, m, w)

\* C9: after any sequence of render requests the visible output is that of
\* the most recent request's Filter State alone; nothing an earlier request
\* drew is left visible.
C9_LastRequestAlone ==
    [][(cycles' = 1 /\ thrown' = "" /\ InitialisedIn(svg', container'))
          => AloneOutput(container', data', selectedYear', selected',
                         selectedMetric', clientWidth')]_vars

\* A render, filter or resize event
Event ==
    \/ RenderCall
    \/ \E v \in {"all", "2023", "2024"} : TSR_ChangeYear(v)
    \/ TSR_ClearFilter
    \/ \E w \in Widths : TSR_Resize(w)
    \/ \E id \in 1..MaxTimers : TSR_TimerFire(id)
    \/ \E year \in Range(DES_yearButtons) : DES_ClickYear(year)
    \/ \E metric \in Range(ENF_metrics) : ENF_selectMetric(metric)
    \/ ENF_selectAllJurisdictions
    \/ ENF_clearAllJurisdictions

\* init() has run: it left its controls in the container
InitRun == container # <<>>

NoDataShapes(c) == \A i \in DOMAIN c : c[i].kind = "svg" => c[i].marks = <<>>

\* C10: a chart leaves Uninitialized for Loading, Loading for Ready or (on a
\* load failure only) Error, and a render, filter or resize event that
\* arrives at an initialised chart before the load completes draws no data
\* shapes and does not throw.
C10_PreLoadEventsSafe ==
    [][/\ loadState' # loadState =>
             \/ (loadState = "idle" /\ loadState' = "pending")
             \/ (loadState = "pending" /\ loadState' \in {"resolved", "rejected"})
       /\ (~Loaded /\ InitRun /\ Event) => (thrown' = "" /\ NoDataShapes(container'))
      ]_vars

\* The load of the chart's data file fails in this step
LoadFails == loadState = "pending" /\ loadState' = "rejected"

C12_ErrorIsTerminal ==
    [][loadState = "rejected" =>
         /\ loadState' = "rejected"
         /\ data' = data /\ rawData' = rawData
         /\ NoDataShapes(container')]_vars

\* A failed ranking chart whose debounced resize callback has run
C12_Witness ==
    /\ chart = "TSR" /\ loadState = "rejected"
    /\ listening /\ burst > 0 /\ timers = {}
    /\ data = Null /\ NoDataShapes(container)

\* The data of the fines page arrives in this step
FinesLoaded == chart = "OFF" /\ loadState = "pending" /\ loadState' = "resolved"

\* C13: failures are isolated per chart: once the data of the page has
\* loaded, the offence chart (whose own render raises no error) stands
\* drawn with its filter card, whatever error the render of another chart
\* of the page raises; no error takes the whole page down.
C13_FailuresIsolated ==
    [][FinesLoaded =>
         /\ InitialisedIn(svg', container')
         /\ Drawing(container') = <<OFF_renderChart(Get(data'), selected')>>]_vars

\* The geography fetch failed: fetch rejected, the response carries an HTTP
\* error status, or its body is not JSON
GeoFetchFailed(resp) == resp.fetch = "rejects" \/ resp.status # 200 \/ resp.json = Null

BaseMapDrawn(c) ==
    \E i \in DOMAIN c : c[i].kind = "svg" /\ \E k \in DOMAIN c[i].marks :
                                                c[i].marks[k].detail = <<"base">>

\* C14: when the geography fetch fails, loadData() completes without error
\* holding the hardcoded fallback polygon as geography, and a render() of the
\* initialised chart with records for the selected year does not throw and
\* draws the base map.
C14_GeoFallbackDrawn ==
    [][(chart = "MAP" /\ geoResponse' # Null /\ GeoFetchFailed(Get(geoResponse'))) =>
          /\ loadState = "pending" =>
                /\ loadState' = "resolved" /\ thrown' = ""
                /\ geoData' = Some(MAP_createFallbackGeoJSON)
          /\ (MAP_Render /\ svg /\ MAP_yearData(Get(data), selectedYear) # <<>>) =>
                /\ thrown' = ""
                /\ BaseMapDrawn(container')]_vars


\* The shapes of layer that render() drew for the feature named name
ShapesOf(c, layer, name) ==
    {m \in UNION {Range(c[i].marks) : i \in {k \in DOMAIN c : c[k].kind = "svg"}} :
        m.detail[1] = layer /\ m.key = name}

\* C15: on a rendered choropleth, a geometry feature named "New South Wales"
\* and one named "NSW" carry the same fill colour and the same jurisdiction
\* code on their labels.
C15_NameAndCodeSameFill ==
    chart = "MAP" =>
       /\ \A a \in ShapesOf(container, "heat", "New South Wales"),
             b \in ShapesOf(container, "heat", "NSW") : a.value = b.value
       /\ \A a \in ShapesOf(container, "label", "New South Wales"),
             b \in ShapesOf(container, "label", "NSW") : a.detail = b.detail

C15_Witness ==
    /\ chart = "MAP"
    /\ \E a \in ShapesOf(container, "heat", "New South Wales") : a.value # Null
    /\ \E b \in ShapesOf(container, "heat", "NSW") : b.value # Null
    /\ ShapesOf(container, "label", "New South Wales") # {}
    /\ ShapesOf(container, "label", "NSW") # {}


\* C16: with the records NSW/2023/breath 100, NSW/2023/drug 20 and
\* VIC/2023/breath 50 loaded and the year 2023 selected, the aggregation
\* gives NSW a total of 120 at rank 1 and VIC a total of 50 at rank 2, the
\* bars are drawn in that order, and the tooltip of the NSW bar shows an
\* alcohol share of 83.3%.
C16_RankingExample ==
    (chart = "TSR" /\ data = Some(TSR_parse(TSR_Example)) /\ selectedYear = "2023") =>
       /\ TSR_aggregateData(data, selectedYear) =
             << [jurisdiction |-> "NSW", totalTests |-> 120, alcoholTests |-> 100,
                 drugTests |-> 20, rank |-> 1],
                [jurisdiction |-> "VIC", totalTests |-> 50, alcoholTests |-> 50,
                 drugTests |-> 0, rank |-> 2] >>
       /\ TSR_Bars # <<>> =>
             /\ Len(TSR_Bars) = 2
             /\ TSR_Bars[1].key = "NSW" /\ TSR_Bars[1].value = 120
             /\ TSR_Bars[2].key = "VIC" /\ TSR_Bars[2].value = 50
       /\ (tooltip # Null /\ Get(tooltip).visible /\ Get(tooltip).html[1] = "NSW"
             /\ Get(tooltip).html[2] = "2023") => Get(tooltip).html[3] = "83.3"

C16_Witness ==
    /\ chart = "TSR" /\ data = Some(TSR_parse(TSR_Example)) /\ selectedYear = "2023"
    /\ Len(TSR_Bars) = 2
    /\ tooltip = Some([visible |-> TRUE, html |-> <<"NSW", "2023", "83.3", "16.7">>,
                       attached |-> TRUE])


\* The rate texts on show: the year-over-year change of the tooltip of the
\* positive-tests trend chart
ShownRates ==
    IF chart = "PDC" /\ tooltip # Null /\ Get(tooltip).visible
    THEN {Get(tooltip).html[3]}
    ELSE {}

\* C17: no rate on show is NaN or Infinity: a rate whose denominator is 0 is
\* shown as 0%.
C17_RatesGuardZero ==
    \A rate \in ShownRates : rate \notin {"NaN%", "+Infinity%"}


PointerEnters == pointer = Null /\ pointer' # Null

PointerMoves == pointer # Null /\ pointer' # Null /\ pointer' # pointer

PointerLeaves == pointer # Null /\ pointer' = Null

\* The tooltip t is on show at the place that belongs to pointer position p
ShownAt(t, p) == t # Null /\ Get(t).visible /\ Get(t).left = TooltipLeft(Get(p))

\* C18: for every hoverable shape the tooltip is shown when the pointer
\* enters it, is placed at the pointer again on every move of the pointer
\* over it, and is hidden when the pointer leaves.
C18_TooltipFollowsPointer ==
    [][/\ PointerEnters => ShownAt(tooltip', pointer')
       /\ PointerMoves => ShownAt(tooltip', pointer')
       /\ PointerLeaves => ~Get(tooltip').visible]_vars


Ascending(years) == \A i, j \in DOMAIN years : i < j => years[i] <= years[j]

\* The years of the series a trend chart has on show, in drawing order: of
\* the fines trends chart, of PositiveDrugChart, and of the series the last
\* render() of a LineChart drew
SeriesYears ==
    IF chart = "OFF"
    THEN LET ss == NodesOf(page.trends, "svg")
         IN IF ss = <<>> THEN <<>>
            ELSE [i \in DOMAIN ss[1].marks |-> ToNumber(ss[1].marks[i].key)]
    ELSE IF chart = "PDC" THEN [i \in DOMAIN PDC_Dots |-> PDC_Dots[i].key]
    ELSE IF chart = "LIN" /\ svg /\ cycles = 1
    THEN LET n == Len(LIN_Dots)
             last == SubSeq(LIN_Dots, n - Len(Get(data)) + 1, n)
         IN [i \in DOMAIN last |-> last[i].key]
    ELSE <<>>

\* C20: every trend chart draws its series in ascending order of year,
\* whatever the order of its input.
C20_SeriesAscending == Ascending(SeriesYears)


\* C19: no handler of a chart instance changes what belongs to another
\* instance: a filter mutation or render on one EnforcementOutcomesChart
\* leaves the filter buttons of a second instance in the same document as
\* they are.
C19_InstancesIsolated ==
    [][page'.peer = page.peer]_vars


\* The categories of the bars on show
ShownCategories == {m.key : m \in Range(Drawing(container)[1].marks)}

\* C21: the offence chart keeps the records with a missing category: every
\* record that passes the jurisdiction filter, a record without METRIC too,
\* has the group of its category among the bars.
C21_UnknownCategoryKept ==
    (chart = "OFF" /\ Loaded /\ Drawing(container) # <<>>) =>
        \A i \in DOMAIN SelectedRecords : SelectedRecords[i].METRIC \in ShownCategories

\* The count fields of the loaded records (a number n is {n}, NaN is {})
LoadedCounts ==
    CASE chart = "PDC" -> {Get(data)[i].count : i \in DOMAIN Get(data)}
      [] chart = "TSR" -> {{Get(data)[i].count} : i \in DOMAIN Get(data)}
      [] chart = "MAP" -> UNION {{{Get(data)[i].fines}, {Get(data)[i].arrests},
                                  {Get(data)[i].charges}} : i \in DOMAIN Get(data)}
      [] OTHER -> {}

\* C22: every count field of every loaded record is a number: the number of
\* a numeric cell, 0 for a missing or invalid cell, never NaN.
C22_CountsAreNumbers ==
    (Loaded /\ data # Null) => \A count \in LoadedCounts : count # NaN /\ Get(count) \in Nat

\* The fetch of the data file failed: it was rejected, or the server
\* answered with an error status
FetchFailed == response # Null /\ (Get(response).fetch = "rejects" \/ ~Get(response).ok)

\* C23: a data load returns the records or fails with a LoadError; it never
\* completes successfully when the fetch of the file failed.
C23_NoRecordsFromFailedFetch == FetchFailed => loadState = "rejected"

\* A 'resize' event arrives, or a debounced resize callback runs
ResizeStep == (\E w \in Widths : TSR_Resize(w)) \/ (\E id \in 1..MaxTimers : TSR_TimerFire(id))

\* C24: after destroy() the instance never renders again: no resize event
\* and no debounced resize callback pending at the time of destroy() draws
\* anything into the container.
C24_NoRenderAfterDestroy ==
    [][(destroyed /\ ResizeStep) => (container' = container /\ cycles' = 0)]_vars

\* The sum of metric over the records of d for the year and the
\* jurisdiction code
MetricSum(d, year, code, metric) ==
    LET recs == SelectSeq(d, LAMBDA r : r.year = year /\ r.jurisdiction = code)
    IN SumSeq([i \in DOMAIN recs |-> MAP_getMetricValue(recs[i], metric)])

\* The regions of the choropleth on show that carry a value, each with the
\* metric and the year of the drawing
ValuedRegions ==
    UNION {{[shape |-> m, metric |-> container[i].text, year |-> container[i].width] :
              m \in {x \in Range(container[i].marks) :
                        x.detail[1] \in {"heat", "label"} /\ x.value # Null}} :
           i \in {k \in DOMAIN container : container[k].kind = "svg"}}

\* C25: the value a choropleth region is coloured and labelled by equals the
\* sum of the selected metric over all records of its jurisdiction for the
\* selected year.
C25_RegionValueIsSum ==
    (chart = "MAP" /\ data # Null) =>
        \A v \in ValuedRegions :
            MAP_getStateCode(v.shape.key) # Null =>
                Get(v.shape.value) =
                    MetricSum(Get(data), v.year, Get(MAP_getStateCode(v.shape.key)), v.metric)

\* The year buttons of container c that are shown as active
ActiveYearButtons(c) ==
    UNION {{m.key : m \in {x \in Range(c[i].marks) : x.value = 1}} :
           i \in {k \in DOMAIN c : c[k].kind = "year-filter"}}

\* C26: after every filter mutation the active state of the filter controls
\* matches the Filter State: of the year buttons of the stacked chart,
\* exactly the one of the selected year is shown as active.
C26_ActiveControlMatchesFilter ==
    [][(\E year \in Range(DES_yearButtons) : DES_ClickYear(year))
          => ActiveYearButtons(container') = {selectedYear'}]_vars

\* C27: for every jurisdiction of the ranking chart alcoholTests + drugTests
\* equals the total the shares of the tooltip are divided by, so that the
\* two percentages sum to 100% for a nonzero total.
C27_SharesSumToTotal ==
    chart = "TSR" =>
        \A i \in DOMAIN TSR_Bars : TSR_Bars[i].detail[1] + TSR_Bars[i].detail[2] = TSR_Bars[i].value

\* C28: toggling the same jurisdiction chip twice in a row brings the chart
\* back to the same Filter State and to the same drawn series in the same
\* order: after a toggle of j, the toggle of j that follows selects what was
\* selected before and draws what was drawn before.
C28_DoubleToggleRestores ==
    [][\A j \in Range(CodeOrder) :
          (ENF_toggleJurisdiction(j) /\ data # Null /\ svg) =>
              /\ Range(AGE_toggle(selected', j)) = Range(selected)
              /\ ENF_svgNode(Get(data), AGE_toggle(selected', j), selectedMetric)
                    = ENF_svgNode(Get(data), selected, selectedMetric)]_vars

\* The tooltip t of the ranking chart is on show: it is in the document and
\* its visibility is 'visible'
OnShow(t) == t # Null /\ Get(t).visible /\ Get(t).attached

\* C29: a tooltip on show belongs to a shape drawn under the pointer: when
\* the ranking chart is drawn again (filter change, debounced resize) or
\* destroyed while its tooltip is on show, the tooltip is not on show
\* afterwards.
C29_TooltipHiddenOnRedraw ==
    [][(chart = "TSR" /\ OnShow(tooltip) /\ (cycles' = 1 \/ TSR_Destroy))
          => ~OnShow(tooltip')]_vars

\* C30: for a file path and sheet name, loadExcel fetches the file at most
\* once between calls of clearCache, also when two calls overlap before the
\* first completes (a fetch that failed is not counted).
C30_FetchedAtMostOnce == chart = "DL" => fetches <= 1

\* ------------------------------------------------------------ specification
Init ==
    /\ chart \in {"TSR", "DES", "DTB", "OFF", "AGE", "ENF", "MAP", "PDC", "LIN", "DL"}
    /\ loadState = "idle"
    /\ rawData = Null
    /\ data = IF chart \in {"DES", "DTB"} THEN Some(<<>>) ELSE Null
    /\ selectedYear = IF chart = "DES" THEN "both"
                      ELSE IF chart \in {"AGE", "MAP"} THEN Null ELSE "all"
    /\ selected = IF chart = "OFF" THEN {} ELSE <<>>
    /\ selectedMetric = IF chart = "MAP" THEN "FINES" ELSE "Fines"
    /\ container = <<>>
    /\ svg = FALSE
    /\ tooltip = Null
    /\ thrown = ""
    /\ cycles = 0
    /\ clientWidth \in Widths
    /\ timers = {}
    /\ resizeTimeout = Null
    /\ listening = FALSE
    /\ burst = 0
    /\ page \in IF chart = "ENF"
                THEN {EmptyPage, [EmptyPage EXCEPT !.peer = Some(ENF_Peer)]}
                ELSE {EmptyPage}
    /\ pointer = Null
    /\ geoData = Null
    /\ geoResponse = Null
    /\ response = Null
    /\ destroyed = FALSE
    /\ cache = Null
    /\ inflight = [cur |-> 0, old |-> 0]
    /\ fetches = 0

Next ==
    \/ TSR_LoadData
    \/ TSR_LoadResolve
    \/ TSR_LoadReject
    \/ TSR_Init
    \/ TSR_Render
    \/ \E v \in {"all", "2023", "2024"} : TSR_ChangeYear(v)
    \/ TSR_ClearFilter
    \/ \E i \in 1..MaxRows : TSR_MouseOver(i)
    \/ TSR_MouseOut
    \/ \E w \in Widths : TSR_Resize(w)
    \/ \E id \in 1..MaxTimers : TSR_TimerFire(id)
    \/ TSR_Destroy
    \/ DL_loadExcel
    \/ \E epoch \in {"cur", "old"}, f \in DL_Sheets : DL_LoadResolve(epoch, f)
    \/ \E epoch \in {"cur", "old"}, resp \in Responses : DL_LoadReject(epoch, resp)
    \/ DL_clearCache
    \/ DES_LoadData
    \/ DES_LoadResolve
    \/ DES_LoadReject
    \/ DES_Init
    \/ DES_Render
    \/ \E year \in Range(DES_yearButtons) : DES_ClickYear(year)
    \/ DTB_LoadData
    \/ DTB_LoadResolve
    \/ DTB_LoadReject
    \/ DTB_Init
    \/ DTB_Render
    \/ OFF_DOMContentLoaded
    \/ OFF_LoadResolve
    \/ OFF_LoadReject
    \/ OFF_SelectAll
    \/ OFF_ClearAll
    \/ \E j \in Range(CodeOrder) : OFF_ChipClick(j)
    \/ AGE_LoadData
    \/ AGE_LoadResolve
    \/ AGE_LoadReject
    \/ AGE_Init
    \/ AGE_Render
    \/ \E year \in Years : AGE_ClickYear(year)
    \/ \E age \in Range(AGE_order) : AGE_toggleAgeGroup(age)
    \/ AGE_selectAllAgeGroups
    \/ AGE_clearAllAgeGroups
    \/ ENF_LoadData
    \/ ENF_LoadResolve
    \/ ENF_LoadReject
    \/ ENF_Init
    \/ ENF_Render
    \/ \E metric \in Range(ENF_metrics) : ENF_selectMetric(metric)
    \/ \E j \in Range(CodeOrder) : ENF_toggleJurisdiction(j)
    \/ ENF_selectAllJurisdictions
    \/ ENF_clearAllJurisdictions
    \/ MAP_LoadData
    \/ \E f \in MAP_Files, resp \in MAP_Responses : MAP_LoadResolve(f, resp)
    \/ MAP_LoadReject
    \/ MAP_Init
    \/ MAP_Render
    \/ \E year \in Years : MAP_SliderInput(year)
    \/ \E metric \in Range(MAP_metrics) : MAP_ClickMetric(metric)
    \/ PDC_LoadData
    \/ PDC_LoadResolve
    \/ PDC_LoadReject
    \/ PDC_Init
    \/ PDC_Render
    \/ \E i \in 1..MaxRows, pageX \in Pointer : PDC_MouseOver(i, pageX)
    \/ \E pageX \in Pointer : PDC_MouseMove(pageX)
    \/ PDC_MouseOut
    \/ LIN_Init
    \/ \E d \in LIN_Inputs : LIN_Render(d)
    \/ \E i \in 1..MaxDots, pageX \in Pointer : LIN_MouseOver(i, pageX)
    \/ \E pageX \in Pointer : LIN_MouseMove(pageX)
    \/ LIN_MouseOut

Spec == Init /\ [][Next]_vars

====
